---- MODULE Spec2Model ----
(***************************************************************************)
(* Model of the price_flow service: the clothing-code import engine, the   *)
(* reference-catalog loader, the administrative table transfer, the Nulan  *)
(* price-sync walker and the Lanseti gap-fill passes.                      *)
(*                                                                         *)
(* Representation of Python / SQLite values                                *)
(*   - a str is a sequence of one-character strings, so that strip(),      *)
(*     lower() and f-string concatenation are computed, not assumed;       *)
(*   - None / SQL NULL in a string-typed position is the token None;       *)
(*   - float('nan') in a string-typed position is the token NaN;           *)
(*   - Optional[int] is <<>> (None) or <<n>>;                              *)
(*   - a table is a bag of rows: the autoincrement id only distinguishes   *)
(*     rows, so two rows that differ in id alone are two copies in the bag.*)
(***************************************************************************)
EXTENDS Bags, FiniteSets, Integers, Sequences, TLC

VARIABLES
    product_codes,   \* table supplier_product_codes (bag of rows)
    clothing_codes,  \* table supplier_clothing_codes (bag of rows)
    price,           \* table supplier_price (bag of rows)
    schema,          \* per table: its columns and whether it carries UNIQUE (code, supplier_id)
    req,             \* the request being served (operation and its inputs)
    res,             \* what the operation returned or raised
    df,              \* gap-fill: the merged sheet handed to _fill_missing_data
    neighbors_df,    \* gap-fill: the table after _fill_missing_from_neighbors
    filled_df,       \* gap-fill: the table _fill_missing_data returns
    uploads,         \* the files and directories the loaders left under uploads/
    _instances,      \* AsyncDatabaseFactory._instances: key -> manager (0: no entry)
    _lock,           \* AsyncDatabaseFactory._lock: the task that holds it (0: free)
    managers,        \* the SQLiteManager objects constructed so far, in order
    _db_manager,     \* the _db_manager field of the shared repository and loader
    _db_manager_lock,\* LoaderCodes._db_manager_lock: the task that holds it (0: free)
    tasks            \* per task: where it stands in get_manager and its locals

vars == <<product_codes, clothing_codes, price, schema, req, res,
          df, neighbors_df, filled_df, uploads,
          _instances, _lock, managers, _db_manager, _db_manager_lock, tasks>>

store_vars == <<product_codes, clothing_codes, price, schema>>
fill_vars == <<df, neighbors_df, filled_df, uploads>>
handle_vars == <<_instances, _lock, managers, _db_manager, _db_manager_lock, tasks>>

(***************************************************************************)
(* Bounds of the model                                                     *)
(***************************************************************************)
MaxBatch == 2        \* longest uploaded import file, in records
MaxRecords == 4      \* longest sheet handed to the gap-fill pipeline, in rows
MaxSheetRows == 4    \* rows of all sheets of one price-sync run together
MaxCsvRows == 2      \* longest reference CSV, in data rows
MaxSyncRows == 2     \* rows of the sheets of a price sync that follows other writes
MaxClothingRows == 4 \* rows of supplier_clothing_codes up to which refreshes are followed
MaxTasks == 3        \* tasks that ask for the store handle at the same time
MaxPriceItems == 3   \* records handed to one call of add_supplier_price
MaxRefreshRows == 3  \* rows of each table before a clothing refresh
MaxRefillRows == 4   \* longest sheet handed to the gap-fill pipeline twice
MaxOverlapRows == 2  \* longest sheet of each of two concurrent price-sync runs
MaxWalkRows == 3     \* longest sheet of a walk that is followed row by row
MaxMergeRows == 3    \* longest sheet merged with the reference catalog
MaxUploads == 2      \* uploads to the ZIP loaders that are followed

(***************************************************************************)
(* Strings                                                                 *)
(***************************************************************************)
None == <<"None">>
NaN == <<"NaN">>
SP == " "

IsStr(v) == v \notin {None, NaN}

UpperLetters ==
    <<"A", "B", "C", "D", "E", "F", "G", "H", "I", "J", "K", "L", "M">> \o
    <<"N", "O", "P", "Q", "R", "S", "T", "U", "V", "W", "X", "Y", "Z">>

LowerLetters ==
    <<"a", "b", "c", "d", "e", "f", "g", "h", "i", "j", "k", "l", "m">> \o
    <<"n", "o", "p", "q", "r", "s", "t", "u", "v", "w", "x", "y", "z">>

LowerChar(c) ==
    IF \E k \in 1..Len(UpperLetters) : UpperLetters[k] = c
    THEN LowerLetters[CHOOSE k \in 1..Len(UpperLetters) : UpperLetters[k] = c]
    ELSE c

Lower(s) == [i \in 1..Len(s) |-> LowerChar(s[i])]

RECURSIVE LStrip(_)
LStrip(s) == IF s # <<>> /\ s[1] = SP THEN LStrip(Tail(s)) ELSE s

RECURSIVE RStrip(_)
RStrip(s) == IF s # <<>> /\ s[Len(s)] = SP THEN RStrip(SubSeq(s, 1, Len(s) - 1)) ELSE s

Strip(s) == RStrip(LStrip(s))

Truthy(opt) == opt # <<>> /\ opt[1] # 0

(***************************************************************************)
(* Schema: tables, keys, constraints                                       *)
(***************************************************************************)
\* the suppliers of the two price loaders (nulan, lanseti)
DEFAULT_SUPPLIER_ID == 564

LANSETI_DEFAULT_SUPPLIER_ID == 201

Suppliers == {DEFAULT_SUPPLIER_ID, LANSETI_DEFAULT_SUPPLIER_ID}

Key(row) == <<row.code, row.supplier_id>>

Rows(table) == BagToSet(table)

\* no two rows of the table share (code, supplier_id)
UniqueKeys(table) ==
    \A r \in Rows(table) :
        /\ CopiesIn(r, table) = 1
        /\ \A q \in Rows(table) : Key(q) = Key(r) => q = r

StrFields ==
    {"name", "category", "subcategory", "product_summary", "size", "color",
     "supplier_code", "description"}

ClothingFields == StrFields \cup {"code", "supplier_id"}

\* a table as CREATE TABLE of sql_script_create_table makes it; text_default
\* is what a supplier_code or description left out of an INSERT becomes
ScriptTable(columns) ==
    [unique |-> TRUE, columns |-> columns, text_default |-> None]

\* a table as pandas to_sql(if_exists='replace') makes it: the columns of the
\* frame, no constraint
PandasTable(columns) ==
    [unique |-> FALSE, columns |-> columns, text_default |-> None]

\* the schema sql_script_create_table creates
sql_script_create_table ==
    [product_codes |->
        ScriptTable({"id", "code", "name", "category", "subcategory", "supplier_id"}),
     clothing_codes |-> ScriptTable(ClothingFields \cup {"id"}),
     price |->
        ScriptTable({"id", "code", "name", "category", "subcategory", "supplier_id",
                     "product_summary", "size", "color", "price"})]

(***************************************************************************)
(* schemas/supplier_schemas.py                                             *)
(***************************************************************************)
\* python type of each field of a validated ClothingCodeCreate (ClothingCodeBase)
ClothingCodeBase ==
    [code |-> "int", name |-> "str", category |-> "str", subcategory |-> "str",
     supplier_id |-> "int", product_summary |-> "str", size |-> "str",
     color |-> "str", supplier_code |-> "str", description |-> "str"]

\* declared type of each (optional) field of ClothingCodeUpdate
ClothingCodeUpdate ==
    [code |-> "int", name |-> "str", category |-> "str", subcategory |-> "str",
     supplier_id |-> "str", product_summary |-> "str", size |-> "str",
     color |-> "str", supplier_code |-> "str", description |-> "str"]

\* ClothingCodeCreate.convert_nan_to_none (supplier_code, description; mode before)
convert_nan_to_none(v) ==
    IF v = NaN THEN None
    ELSE IF IsStr(v) /\ Lower(v) = <<"n", "a", "n">> THEN None
    ELSE v

\* required str field with min_length=1 and validate_not_empty
RequiredText(v) == IsStr(v) /\ Len(v) >= 1 /\ Strip(v) # <<>>

\* does ClothingCodeCreate(**item) validate
ClothingCodeCreateValid(item) ==
    /\ item.code > 0
    /\ item.supplier_id > 0
    /\ RequiredText(item.name)
    /\ RequiredText(item.product_summary)
    /\ \A f \in {"category", "subcategory", "size", "color"} : item[f] # NaN

\* the validated ClothingCodeCreate object
ClothingCodeCreate(item) ==
    [item EXCEPT !.name = Strip(item.name),
                 !.product_summary = Strip(item.product_summary),
                 !.supplier_code = convert_nan_to_none(item.supplier_code),
                 !.description = convert_nan_to_none(item.description)]

\* does ClothingCodeUpdate(**data.model_dump()) validate: a value that is not
\* None must have the declared type (pydantic does not coerce int to str)
ClothingCodeUpdateValid(data) ==
    \A f \in ClothingFields :
        \/ (f \in StrFields /\ data[f] = None)
        \/ ClothingCodeUpdate[f] = ClothingCodeBase[f]

(***************************************************************************)
(* repositories/clothing_codes_repo.py                                     *)
(* Every call runs on a connection of its own that is committed when the   *)
(* call returns, so each call below is one committed transaction.          *)
(***************************************************************************)
\* the row fetchone() returns, as a set: {} is None
get_by_supplier_code(table, supplier_id, code) ==
    LET found == {r \in Rows(table) : r.supplier_id = supplier_id /\ r.code = code}
    IN  IF found = {} THEN {} ELSE {CHOOSE r \in found : TRUE}

\* INSERT of the ten columns: raises OperationalError when the table lacks one of
\* them, IntegrityError when the table has UNIQUE and the key is taken
create(table, tschema, data) ==
    IF ~(ClothingFields \subseteq tschema.columns)
    THEN [raised |-> TRUE, error |-> "OperationalError", table |-> table]
    ELSE IF tschema.unique /\ \E r \in Rows(table) : Key(r) = Key(data)
    THEN [raised |-> TRUE, error |-> "IntegrityError", table |-> table]
    ELSE [raised |-> FALSE, error |-> "", table |-> table (+) SetToBag({data})]

\* UPDATE ... WHERE id = existing.id with the fields that are not None
update(table, existing, data) ==
    LET row == [f \in ClothingFields |->
                   IF f \in StrFields /\ data[f] = None THEN existing[f] ELSE data[f]]
    IN  (table (-) SetToBag({existing})) (+) SetToBag({row})

delete_all_by_supplier_Noop(table, supplier_id) == table

delete_all_by_supplier(table, supplier_id) ==
    [r \in {q \in Rows(table) : q.supplier_id # supplier_id} |-> table[r]]

delete_all(table) == EmptyBag

upsert(table, tschema, data) ==
    LET existing == get_by_supplier_code(table, data.supplier_id, data.code)
    IN  IF existing # {}
        THEN IF ClothingCodeUpdateValid(data)
             THEN [raised |-> FALSE, error |-> "", action |-> "updated",
                   table |-> update(table, CHOOSE r \in existing : TRUE, data)]
             ELSE [raised |-> TRUE, error |-> "ValidationError", action |-> "",
                   table |-> table]
        ELSE LET c == create(table, tschema, data)
             IN  [raised |-> c.raised, error |-> c.error, action |-> "created",
                  table |-> c.table]

ErrorEntry(idx, data, error) == [row |-> idx, data |-> data, error |-> error]

\* running state of one import: the table, the counters of the code, its error
\* list, and (ghost) the disposition of every record processed so far
Counters(table) ==
    [table |-> table, created |-> 0, updated |-> 0, skipped |-> 0,
     errors |-> <<>>, log |-> <<>>]

\* one iteration of the loop of upsert_bulk that drops a failed record
upsert_bulk_step_Swallow(acc, tschema, idx, item) ==
    LET u == upsert(acc.table, tschema, item)
    IN  IF u.raised
        THEN [acc EXCEPT !.log = Append(@, "error")]
        ELSE IF u.action = "created"
        THEN [acc EXCEPT !.table = u.table, !.created = @ + 1,
                         !.log = Append(@, "created")]
        ELSE [acc EXCEPT !.table = u.table, !.updated = @ + 1,
                         !.log = Append(@, "updated")]

\* one iteration of the loop of upsert_bulk (idx is the 0-based enumerate index)
upsert_bulk_step(acc, tschema, idx, item) ==
    LET u == upsert(acc.table, tschema, item)
    IN  IF u.raised
        THEN [acc EXCEPT !.errors = Append(@, ErrorEntry(idx, item, u.error)),
                         !.log = Append(@, "error")]
        ELSE IF u.action = "created"
        THEN [acc EXCEPT !.table = u.table, !.created = @ + 1,
                         !.log = Append(@, "created")]
        ELSE [acc EXCEPT !.table = u.table, !.updated = @ + 1,
                         !.log = Append(@, "updated")]

RECURSIVE upsert_bulk_from(_, _, _, _)
upsert_bulk_from(acc, tschema, items, i) ==
    IF i > Len(items) THEN acc
    ELSE upsert_bulk_from(upsert_bulk_step(acc, tschema, i - 1, items[i]),
                          tschema, items, i + 1)

\* a loop that stops at the first record whose upsert raises
RECURSIVE upsert_bulk_until(_, _, _, _)
upsert_bulk_until(acc, tschema, items, i) ==
    IF i > Len(items) \/ acc.errors # <<>> THEN acc
    ELSE upsert_bulk_until(upsert_bulk_step(acc, tschema, i - 1, items[i]),
                           tschema, items, i + 1)

upsert_bulk_Abort(table, tschema, items) ==
    upsert_bulk_until(Counters(table), tschema, items, 1)

\* lines 262-288: every record in input order, whatever the earlier ones did
upsert_bulk(table, tschema, items) ==
    upsert_bulk_from(Counters(table), tschema, items, 1)

(***************************************************************************)
(* services/prices/clothing_codes_service.py: import_clothing_codes        *)
(***************************************************************************)
Strategies == {"upsert", "skip", "replace_supplier", "replace_all", "validate_only"}

ImportResult(message, data, acc) ==
    [status |-> "ImportResult", message |-> message, total_records |-> Len(data),
     created |-> acc.created, updated |-> acc.updated, skipped |-> acc.skipped,
     errors |-> acc.errors, errors_count |-> Len(acc.errors), log |-> acc.log]

HTTPException(detail, errors) ==
    [status |-> "HTTPException", message |-> detail, total_records |-> 0,
     created |-> 0, updated |-> 0, skipped |-> 0,
     errors |-> errors, errors_count |-> Len(errors), log |-> <<>>]

\* lines 106-118: a float NaN value becomes None
CleanItem(item) ==
    [k \in DOMAIN item |-> IF k \in StrFields /\ item[k] = NaN THEN None ELSE item[k]]

\* lines 120-124: keep the records of the supplier when a filter is given
FilterBySupplier(data, supplier_id_filter) ==
    IF Truthy(supplier_id_filter)
    THEN SelectSeq(data, LAMBDA item : item.supplier_id = supplier_id_filter[1])
    ELSE data

\* lines 131-144: validated_items and validation_errors
RECURSIVE validate_from(_, _, _)
validate_from(data, i, acc) ==
    IF i > Len(data) THEN acc
    ELSE validate_from(data, i + 1,
           IF ClothingCodeCreateValid(data[i])
           THEN [acc EXCEPT !.items = Append(@, ClothingCodeCreate(data[i]))]
           ELSE [acc EXCEPT !.errors =
                     Append(@, ErrorEntry(i - 1, data[i], "ValidationError"))])

ValidateAll(data) == validate_from(data, 1, [items |-> <<>>, errors |-> <<>>])

\* lines 167-174: the wipe that precedes a replace import
ClearBeforeImport(table, strategy, supplier_id_filter) ==
    IF strategy = "replace_all" THEN delete_all(table)
    ELSE IF strategy = "replace_supplier" /\ Truthy(supplier_id_filter)
    THEN delete_all_by_supplier(table, supplier_id_filter[1])
    ELSE table

\* a skip iteration that overwrites the stored row instead of leaving it
skip_step_Overwrite(acc, tschema, idx, item) ==
    LET existing == get_by_supplier_code(acc.table, item.supplier_id, item.code)
    IN  IF existing # {}
        THEN [acc EXCEPT !.table = update(acc.table, CHOOSE r \in existing : TRUE, item),
                         !.skipped = @ + 1, !.log = Append(@, "skipped")]
        ELSE LET c == create(acc.table, tschema, item)
             IN  IF c.raised
                 THEN [acc EXCEPT !.errors = Append(@, ErrorEntry(idx, item, c.error)),
                                  !.log = Append(@, "error")]
                 ELSE [acc EXCEPT !.table = c.table, !.created = @ + 1,
                                  !.log = Append(@, "created")]

\* lines 188-203: one iteration of the skip loop
skip_step(acc, tschema, idx, item) ==
    LET existing == get_by_supplier_code(acc.table, item.supplier_id, item.code)
    IN  IF existing # {}
        THEN [acc EXCEPT !.skipped = @ + 1, !.log = Append(@, "skipped")]
        ELSE LET c == create(acc.table, tschema, item)
             IN  IF c.raised
                 THEN [acc EXCEPT !.errors = Append(@, ErrorEntry(idx, item, c.error)),
                                  !.log = Append(@, "error")]
                 ELSE [acc EXCEPT !.table = c.table, !.created = @ + 1,
                                  !.log = Append(@, "created")]

\* a replace iteration that writes over the stored row of the key
replace_step_Overwrite(acc, tschema, idx, item) ==
    LET existing == get_by_supplier_code(acc.table, item.supplier_id, item.code)
    IN  IF existing # {}
        THEN [acc EXCEPT !.table = update(acc.table, CHOOSE r \in existing : TRUE, item),
                         !.created = @ + 1, !.log = Append(@, "created")]
        ELSE LET c == create(acc.table, tschema, item)
             IN  IF c.raised
                 THEN [acc EXCEPT !.errors = Append(@, ErrorEntry(idx, item, c.error)),
                                  !.log = Append(@, "error")]
                 ELSE [acc EXCEPT !.table = c.table, !.created = @ + 1,
                                  !.log = Append(@, "created")]

\* lines 206-215: one iteration of the replace loop
replace_step(acc, tschema, idx, item) ==
    LET c == create(acc.table, tschema, item)
    IN  IF c.raised
        THEN [acc EXCEPT !.errors = Append(@, ErrorEntry(idx, item, c.error)),
                         !.log = Append(@, "error")]
        ELSE [acc EXCEPT !.table = c.table, !.created = @ + 1,
                         !.log = Append(@, "created")]

RECURSIVE import_loop(_, _, _, _, _)
import_loop(acc, tschema, items, i, strategy) ==
    IF i > Len(items) THEN acc
    ELSE import_loop(
           IF strategy = "skip" THEN skip_step(acc, tschema, i - 1, items[i])
           ELSE replace_step(acc, tschema, i - 1, items[i]),
           tschema, items, i + 1, strategy)

\* lines 167-238: wipe, import under the strategy, build the result
ProcessValidated(table, tschema, data, validated_items, strategy, supplier_id_filter) ==
    LET cleared == ClearBeforeImport(table, strategy, supplier_id_filter)
        acc == IF strategy = "upsert"
               THEN upsert_bulk(cleared, tschema, validated_items)
               ELSE import_loop(Counters(cleared), tschema, validated_items, 1, strategy)
    IN  [table |-> acc.table, res |-> ImportResult("import done", data, acc)]

\* a variant without the early return of the dry run
AfterValidation_NoDryRun(table, tschema, data, v, strategy, supplier_id_filter) ==
    IF v.errors # <<>>
    THEN [table |-> table, res |-> HTTPException("validation errors", v.errors)]
    ELSE ProcessValidated(table, tschema, data, v.items, strategy, supplier_id_filter)

\* a variant that passes the valid records on and reports the invalid ones
AfterValidation_Lenient(table, tschema, data, v, strategy, supplier_id_filter) ==
    IF strategy = "validate_only"
    THEN [table |-> table,
          res |-> ImportResult("validation done", data,
                               [Counters(table) EXCEPT !.errors = v.errors])]
    ELSE LET out == ProcessValidated(table, tschema, data, v.items, strategy,
                                     supplier_id_filter)
         IN  [out EXCEPT !.res.errors = v.errors \o @]

\* a variant that wipes before it looks at the validation errors
AfterValidation_WipeFirst(table, tschema, data, v, strategy, supplier_id_filter) ==
    IF strategy = "validate_only"
    THEN [table |-> table,
          res |-> ImportResult("validation done", data,
                               [Counters(table) EXCEPT !.errors = v.errors])]
    ELSE IF v.errors # <<>>
    THEN [table |-> ClearBeforeImport(table, strategy, supplier_id_filter),
          res |-> HTTPException("validation errors", v.errors)]
    ELSE ProcessValidated(table, tschema, data, v.items, strategy, supplier_id_filter)

\* lines 146-165: the dry run returns, any other strategy rejects invalid input
AfterValidation(table, tschema, data, v, strategy, supplier_id_filter) ==
    IF strategy = "validate_only"
    THEN [table |-> table,
          res |-> ImportResult("validation done", data,
                               [Counters(table) EXCEPT !.errors = v.errors])]
    ELSE IF v.errors # <<>>
    THEN [table |-> table, res |-> HTTPException("validation errors", v.errors)]
    ELSE ProcessValidated(table, tschema, data, v.items, strategy, supplier_id_filter)

\* lines 74-238: the whole call; file is the unpacked list of records
import_clothing_codes(table, tschema, file, strategy, supplier_id_filter) ==
    IF file = <<>>
    THEN [table |-> table, res |-> HTTPException("no data to import", <<>>)]
    ELSE LET cleaned == [i \in 1..Len(file) |-> CleanItem(file[i])]
             data == FilterBySupplier(cleaned, supplier_id_filter)
         IN  IF data = <<>>
             THEN [table |-> table, res |-> HTTPException("no data for supplier", <<>>)]
             ELSE AfterValidation(table, tschema, data, ValidateAll(data),
                                  strategy, supplier_id_filter)

(***************************************************************************)
(* services/prices/lanseti/price_loader.py: the gap-fill pipeline           *)
(* A sheet is a sequence of rows [name, category, subcategory,              *)
(* filled_by_rule, filled_by_neighbors]; name is the column of the product  *)
(* name.  The Cyrillic keywords of the rules are written in Latin           *)
(* transliteration.                                                         *)
(***************************************************************************)
\* keyword in name
Contains(name, keyword) ==
    \E k \in 0..(Len(name) - Len(keyword)) :
        SubSeq(name, k + 1, k + Len(keyword)) = keyword

licenziya == <<"l", "i", "c", "e", "n", "z", "i", "y", "a">>
stars == <<"*", "*", "*">>
vintag == <<"v", "i", "n", "t", "a", "g">>
vintazh == <<"v", "i", "n", "t", "a", "z", "h">>
novaya_zarya == <<"n", "o", "v", "a", "y", "a", " ", "z", "a", "r", "y", "a">>
kosmetika == <<"k", "o", "s", "m", "e", "t", "i", "k", "a">>
novaja_zarja == <<"n", "o", "v", "a", "j", "a", " ", "z", "a", "r", "j", "a">>
montale == <<"m", "o", "n", "t", "a", "l", "e">>
dekodirovannyj == <<"d", "e", "k", "o", "d", "i", "r", "o", "v", "a", "n", "n", "y", "j">>
Elit_Parfum == <<"E", "l", "i", "t", " ", "P", "a", "r", "f", "u", "m">>
Licenziya_stars == <<"L", "i", "c", "e", "n", "z", "i", "y", "a", "*", "*", "*">>
NO == <<"N", "O">>

\* the condition of the k-th rule of PRODUCT_NAME_RULES
RuleCondition(k, name) ==
    CASE k = 1 -> \E keyword \in {licenziya, stars} : Contains(Lower(name), keyword)
      [] k = 2 -> \E keyword \in {vintag, vintazh, novaya_zarya, kosmetika, novaja_zarja} :
                      Contains(Lower(name), keyword)
      [] k = 3 -> Contains(Lower(name), montale) /\ Contains(Lower(name), dekodirovannyj)

PRODUCT_NAME_RULES ==
    <<[group |-> Elit_Parfum, subgroup |-> Licenziya_stars],
      [group |-> NO, subgroup |-> NO],
      [group |-> NO, subgroup |-> NO]>>

isna(v) == v \in {NaN, None}

notna(v) == ~isna(v)

\* a row that counts as a neighbor: neither value is missing
Categorized(row) == notna(row.category) /\ notna(row.subcategory)

\* lines 902-911: the first rule whose condition holds overwrites both values
_fill_by_product_name_row(row) ==
    IF isna(row.name) THEN row
    ELSE LET hits == {k \in 1..Len(PRODUCT_NAME_RULES) : RuleCondition(k, row.name)}
         IN  IF hits = {} THEN row
             ELSE LET first == CHOOSE k \in hits : \A h \in hits : k <= h
                  IN  [row EXCEPT !.category = PRODUCT_NAME_RULES[first].group,
                                  !.subcategory = PRODUCT_NAME_RULES[first].subgroup,
                                  !.filled_by_rule = TRUE]

_fill_by_product_name(sheet) ==
    [i \in 1..Len(sheet) |-> _fill_by_product_name_row(sheet[i])]

\* lines 989-1031: row i of the table that is being updated
fill_row_from_neighbors(result_df, i) ==
    LET current == result_df[i]
        above == {j \in 1..(i - 1) : Categorized(result_df[j])}
        below == {j \in (i + 1)..Len(result_df) : Categorized(result_df[j])}
    IN  IF (isna(current.category) \/ isna(current.subcategory))
           /\ above # {} /\ below # {}
        THEN LET upper == result_df[CHOOSE j \in above : \A h \in above : h <= j]
                 lower == result_df[CHOOSE j \in below : \A h \in below : j <= h]
             IN  IF upper.category = lower.category
                    /\ upper.subcategory = lower.subcategory
                 THEN [result_df EXCEPT ![i] =
                          [current EXCEPT
                              !.category = IF isna(@) THEN upper.category ELSE @,
                              !.subcategory = IF isna(@) THEN upper.subcategory ELSE @,
                              !.filled_by_neighbors = TRUE]]
                 ELSE result_df
        ELSE result_df

\* lines 988-1041: the walk from the first row to the last
RECURSIVE fill_neighbors_from(_, _)
fill_neighbors_from(result_df, i) ==
    IF i > Len(result_df) THEN result_df
    ELSE fill_neighbors_from(fill_row_from_neighbors(result_df, i), i + 1)

_fill_missing_from_neighbors(sheet) == fill_neighbors_from(sheet, 1)

\* lines 881-885: the copy with the two provenance columns
WithFlags(sheet) ==
    [i \in 1..Len(sheet) |->
        [name |-> sheet[i].name, category |-> sheet[i].category,
         subcategory |-> sheet[i].subcategory,
         filled_by_rule |-> FALSE, filled_by_neighbors |-> FALSE]]

_fill_missing_data(sheet) ==
    _fill_by_product_name(_fill_missing_from_neighbors(WithFlags(sheet)))

\* a pipeline that works on the frame it is handed instead of a copy
fill_missing_data_call_InPlace(sheet) ==
    [df |-> _fill_missing_data(sheet), result |-> _fill_missing_data(sheet)]

\* lines 874-894 as the caller sees the call: its own frame, which every
\* pass leaves alone because it works on df.copy() (lines 881, 900, 979),
\* and the frame that is returned
fill_missing_data_call(sheet) ==
    [df |-> sheet, result |-> _fill_missing_data(sheet)]

(***************************************************************************)
(* services/prices/nulan: the price sync of one supplier                    *)
(* A sheet row is a function from the column numbers the walker reads to    *)
(* cells; a cell is a string, NaN or a number Float(n).                     *)
(***************************************************************************)
Float(n) == <<"float", n>>

IsFloat(cell) == Len(cell) = 2 /\ cell[1] = "float"

\* isinstance(cell, str)
IsStrCell(cell) == cell \notin {None, NaN} /\ ~IsFloat(cell)

PRODUCT_SIGN_COLUMN == 1
PRODUCT_NAME_COLUMN == 3
PRODUCT_SIZE_RANGE == 14..22
PRODUCT_PRICE_COLUMN == 32
PRODUCT_COLOR_COLUMN == 3
PRODUCT_START_REMAINS_COLUMN == 14

\* the files of FILENAME_MAPPING whose sheets hold rows, in the order of the
\* mapping; the sheets of all other files are empty
FILENAME_MAPPING == <<"19 leggins.xlsx", "11 kolgotki det.xlsx">>

FILE_CHANGE == "11 kolgotki det.xlsx"

cont == <<"c", "o", "n", "t">>
Conte == <<"C", "o", "n", "t", "e">>

\* str.replace(old, new)
RECURSIVE Replace(_, _, _)
Replace(text, old, new) ==
    IF Len(text) < Len(old) THEN text
    ELSE IF SubSeq(text, 1, Len(old)) = old
    THEN new \o Replace(SubSeq(text, Len(old) + 1, Len(text)), old, new)
    ELSE <<text[1]>> \o Replace(Tail(text), old, new)

\* f'{product_summary} {size} {color}'
FullName(product_summary, size, color) ==
    product_summary \o <<SP>> \o size \o <<SP>> \o color

SupplierProduct(code, category, subcategory) ==
    [code |-> code, category |-> category, subcategory |-> subcategory]

\* lines 91-119: MAX(code) of the supplier, 0 without rows
get_max_code_async(clothing, supplier_id) ==
    LET codes == {r.code : r \in {q \in Rows(clothing) : q.supplier_id = supplier_id}}
    IN  IF codes = {} THEN 0 ELSE CHOOSE c \in codes : \A d \in codes : d <= c

\* lines 121-137: DELETE FROM supplier_price WHERE supplier_id = ?
clear_supplier_price(table, supplier_id) ==
    [r \in {q \in Rows(table) : q.supplier_id # supplier_id} |-> table[r]]

\* lines 139-172: the row with the name, as a SupplierProduct; a row whose
\* category or subcategory is NULL fails the SupplierProduct schema, the
\* exception is swallowed and the answer is None
get_supplier_product(clothing, supplier_id, product_summary, size, color) ==
    LET search_name == Strip(FullName(product_summary, size, color))
        result == {r \in Rows(clothing) :
                      r.supplier_id = supplier_id /\ r.name = search_name}
    IN  IF result = {} THEN {}
        ELSE LET first == CHOOSE r \in result : TRUE
             IN  IF IsStr(first.category) /\ IsStr(first.subcategory)
                 THEN {SupplierProduct(first.code, first.category, first.subcategory)}
                 ELSE {}

\* lines 174-204: category and subcategory of the reference row with the code
get_supplier_category_by_code(product, supplier_id, code) ==
    LET result == {r \in Rows(product) : r.supplier_id = supplier_id /\ r.code = code}
    IN  IF result = {} THEN {}
        ELSE LET first == CHOOSE r \in result : TRUE
             IN  IF IsStr(first.category) /\ IsStr(first.subcategory)
                 THEN {SupplierProduct(code, first.category, first.subcategory)}
                 ELSE {}

\* item.field.strip() if item.field else None
StripOrNone(v) == IF v \in {None, <<>>} THEN None ELSE Strip(v)

\* lines 311-324: the values bound to the INSERT; prices are whole numbers,
\* which round(price, 2) leaves as they are
PriceValues(item) ==
    [code |-> item.code, name |-> Strip(item.name),
     category |-> StripOrNone(item.category),
     subcategory |-> StripOrNone(item.subcategory),
     supplier_id |-> item.supplier_id,
     product_summary |-> Strip(item.product_summary),
     size |-> StripOrNone(item.size), color |-> StripOrNone(item.color),
     price |-> item.price]

\* the CHECK constraints of supplier_price
PriceChecks(row) ==
    /\ row.code > 0
    /\ row.name # <<>>
    /\ row.product_summary # <<>>
    /\ row.price >= 0

\* INSERT OR REPLACE of one row: the row with the key gives way
InsertOrReplace(table, tschema, row) ==
    IF tschema.unique
    THEN [r \in {q \in Rows(table) : Key(q) # Key(row)} |-> table[r]] (+) SetToBag({row})
    ELSE table (+) SetToBag({row})

RECURSIVE InsertAll(_, _, _, _)
InsertAll(table, tschema, batch, i) ==
    IF i > Len(batch) THEN table
    ELSE InsertAll(InsertOrReplace(table, tschema, PriceValues(batch[i])),
                   tschema, batch, i + 1)

\* lines 404-452: every row in a statement of its own; a row that violates
\* a constraint is counted as an error
RECURSIVE _insert_one_by_one(_, _, _, _)
_insert_one_by_one(acc, tschema, batch, i) ==
    IF i > Len(batch) THEN acc
    ELSE _insert_one_by_one(
           IF PriceChecks(PriceValues(batch[i]))
           THEN [acc EXCEPT
                    !.table = InsertOrReplace(@, tschema, PriceValues(batch[i])),
                    !.updated = @ + 1]
           ELSE [acc EXCEPT !.errors = @ + 1],
           tschema, batch, i + 1)

_insert_batch_replace_NoFallback(acc, tschema, batch) ==
    IF \A i \in 1..Len(batch) : PriceChecks(PriceValues(batch[i]))
    THEN [acc EXCEPT !.table = InsertAll(@, tschema, batch, 1),
                     !.updated = @ + Len(batch)]
    ELSE [acc EXCEPT !.errors = @ + Len(batch)]

\* lines 290-352: executemany in one transaction; the probe after the write
\* finds every row of the batch, so each one counts as updated; on an
\* IntegrityError the transaction is rolled back and the rows go one by one
_insert_batch_replace(acc, tschema, batch) ==
    IF \A i \in 1..Len(batch) : PriceChecks(PriceValues(batch[i]))
    THEN [acc EXCEPT !.table = InsertAll(@, tschema, batch, 1),
                     !.updated = @ + Len(batch)]
    ELSE _insert_one_by_one(acc, tschema, batch, 1)

\* the default of the batch_size parameter
batch_size == 100

\* lines 244-264: the batches of size records, one after another
RECURSIVE add_batches(_, _, _, _, _)
add_batches(acc, tschema, supplier_prices, i, size) ==
    IF i > Len(supplier_prices) THEN acc
    ELSE add_batches(
           _insert_batch_replace(
               [acc EXCEPT !.batches = @ + 1], tschema,
               SubSeq(supplier_prices, i,
                      IF i + size - 1 < Len(supplier_prices)
                      THEN i + size - 1 ELSE Len(supplier_prices))),
           tschema, supplier_prices, i + size, size)

\* lines 206-288 with batch_size passed by the caller
add_supplier_price_by(table, tschema, supplier_prices, size) ==
    add_batches([table |-> table, total |-> Len(supplier_prices), inserted |-> 0,
                 updated |-> 0, skipped |-> 0, errors |-> 0, batches |-> 0],
                tschema, supplier_prices, 1, size)

\* lines 206-288: the price rows of one file go to supplier_price
add_supplier_price(table, tschema, supplier_prices) ==
    add_supplier_price_by(table, tschema, supplier_prices, batch_size)

\* the store operations of a price-sync run; refs.fails names the ones whose
\* statement raises in the run (sqlite3.OperationalError: locked or
\* unreadable database file)
StoreOperations ==
    {"get_max_code_async", "clear_supplier_price", "get_supplier_product",
     "get_supplier_category_by_code", "add_supplier_price"}

\* lines 91-119 with the handler of lines 117-119: return 0
max_code_or_zero(refs) ==
    IF "get_max_code_async" \in refs.fails THEN 0
    ELSE get_max_code_async(refs.clothing, refs.supplier_id)

\* lines 121-137 with the handler of lines 135-137: the exception is printed
\* and the rolled back DELETE leaves the table as it was
cleared_or_kept(table, refs) ==
    IF "clear_supplier_price" \in refs.fails THEN table
    ELSE clear_supplier_price(table, refs.supplier_id)

\* lines 139-172 with the handler of lines 170-172: return None
product_or_none(refs, product_summary, size, color) ==
    IF "get_supplier_product" \in refs.fails THEN {}
    ELSE get_supplier_product(refs.clothing, refs.supplier_id,
                              product_summary, size, color)

\* lines 174-204 with the handler of lines 202-204: return None
category_or_none(refs, code) ==
    IF "get_supplier_category_by_code" \in refs.fails THEN {}
    ELSE get_supplier_category_by_code(refs.product, refs.supplier_id, code)

\* lines 206-288 with the handler of lines 262-264: a batch whose statement
\* raises anything but an IntegrityError is counted in errors and the loop
\* goes on, so no row is written
price_written_or_counted(table, refs, supplier_prices) ==
    IF "add_supplier_price" \in refs.fails /\ supplier_prices # <<>>
    THEN [table |-> table, total |-> Len(supplier_prices), inserted |-> 0,
          updated |-> 0, skipped |-> 0, errors |-> Len(supplier_prices),
          batches |-> 1]
    ELSE add_supplier_price(table, refs.price_schema, supplier_prices)

\* lines 265-275: SupplierProductPrice takes strings only
SupplierProductPriceValid(item) ==
    \A f \in {"name", "category", "subcategory", "product_summary", "size", "color"} :
        IsStrCell(item[f])

\* a walk that hands out its synthetic code without advancing the counter
emit_NoAdvance(w, s, i, refs) ==
    LET size == w.sizes[i + 1]
        remains == s[i + PRODUCT_START_REMAINS_COLUMN]
        product_color == s[PRODUCT_COLOR_COLUMN]
        supplier_product ==
            product_or_none(refs, w.product_name, size, product_color)
        found == CHOOSE sp \in supplier_product : TRUE
        brands == category_or_none(refs, found.code)
        item == [code |-> IF supplier_product # {} THEN found.code ELSE w.current_code,
                 name |-> FullName(w.product_name, size, product_color),
                 category |->
                     IF supplier_product = {} THEN <<"?">>
                     ELSE IF brands # {} THEN (CHOOSE b \in brands : TRUE).category
                     ELSE found.category,
                 subcategory |->
                     IF supplier_product = {} THEN <<"?">>
                     ELSE IF brands # {} THEN (CHOOSE b \in brands : TRUE).subcategory
                     ELSE found.subcategory,
                 supplier_id |-> refs.supplier_id,
                 product_summary |-> w.product_name, size |-> size,
                 color |-> product_color, price |-> w.product_price]
        next_code == w.current_code
        called == w.called \cup {"get_supplier_product"} \cup
                  (IF supplier_product # {} THEN {"get_supplier_category_by_code"}
                   ELSE {})
    IN  IF ~IsStrCell(remains) THEN w
        ELSE IF ~SupplierProductPriceValid(item)
        THEN [w EXCEPT !.current_code = next_code, !.raised = TRUE,
                       !.called = called]
        ELSE [w EXCEPT !.current_code = next_code,
                       !.price_supplier = Append(@, item),
                       !.emitted = Append(@, item), !.called = called]

\* lines 246-276: size number i of the sub-row s; refs holds the two reference
\* tables and the supplier of the run
emit(w, s, i, refs) ==
    LET size == w.sizes[i + 1]
        remains == s[i + PRODUCT_START_REMAINS_COLUMN]
        product_color == s[PRODUCT_COLOR_COLUMN]
        supplier_product ==
            product_or_none(refs, w.product_name, size, product_color)
        found == CHOOSE sp \in supplier_product : TRUE
        brands == category_or_none(refs, found.code)
        item == [code |-> IF supplier_product # {} THEN found.code ELSE w.current_code,
                 name |-> FullName(w.product_name, size, product_color),
                 category |->
                     IF supplier_product = {} THEN <<"?">>
                     ELSE IF brands # {} THEN (CHOOSE b \in brands : TRUE).category
                     ELSE found.category,
                 subcategory |->
                     IF supplier_product = {} THEN <<"?">>
                     ELSE IF brands # {} THEN (CHOOSE b \in brands : TRUE).subcategory
                     ELSE found.subcategory,
                 supplier_id |-> refs.supplier_id,
                 product_summary |-> w.product_name, size |-> size,
                 color |-> product_color, price |-> w.product_price]
        next_code == IF supplier_product = {} THEN w.current_code + 1
                     ELSE w.current_code
        called == w.called \cup {"get_supplier_product"} \cup
                  (IF supplier_product # {} THEN {"get_supplier_category_by_code"}
                   ELSE {})
    IN  IF ~IsStrCell(remains) THEN w
        ELSE IF ~SupplierProductPriceValid(item)
        THEN [w EXCEPT !.current_code = next_code, !.raised = TRUE,
                       !.called = called]
        ELSE [w EXCEPT !.current_code = next_code,
                       !.price_supplier = Append(@, item),
                       !.emitted = Append(@, item), !.called = called]

RECURSIVE emit_from(_, _, _, _)
emit_from(w, s, i, refs) ==
    IF w.raised \/ i >= Len(w.sizes) THEN w
    ELSE emit_from(emit(w, s, i, refs), s, i + 1, refs)

\* lines 238-241: the string cells of the size columns, in column order
RECURSIVE SizesFrom(_, _)
SizesFrom(s, column) ==
    IF column \notin PRODUCT_SIZE_RANGE THEN <<>>
    ELSE (IF IsStrCell(s[column]) THEN <<s[column]>> ELSE <<>>)
             \o SizesFrom(s, column + 1)

\* lines 231-276: one row of the sheet
walk_row(w, s, file, refs) ==
    IF w.raised THEN w
    ELSE IF s[PRODUCT_SIGN_COLUMN] # NaN
    THEN [w EXCEPT
             !.product_name =
                 IF file = FILE_CHANGE
                 THEN Replace(s[PRODUCT_NAME_COLUMN], cont, Conte)
                 ELSE s[PRODUCT_NAME_COLUMN],
             !.product_price =
                 IF s[PRODUCT_PRICE_COLUMN] = NaN THEN 0
                 ELSE s[PRODUCT_PRICE_COLUMN][2],
             !.sizes = SizesFrom(s, PRODUCT_START_REMAINS_COLUMN)]
    ELSE IF w.product_price > 0 THEN emit_from(w, s, 0, refs)
    ELSE w

RECURSIVE walk_rows(_, _, _, _, _)
walk_rows(w, inf, k, file, refs) ==
    IF k > Len(inf) THEN w
    ELSE walk_rows(walk_row(w, inf[k], file, refs), inf, k + 1, file, refs)

\* lines 221-279: one file; run holds the price table, the next synthetic
\* code, what the run has emitted so far and the store operations it has
\* called (an empty list returns at lines 223-225 before any statement)
_parse_file(run, inf, file, refs) ==
    LET w == walk_rows([sizes |-> <<>>, product_name |-> <<>>, product_price |-> 0,
                        current_code |-> run.current_code, price_supplier |-> <<>>,
                        emitted |-> run.emitted, raised |-> FALSE,
                        called |-> run.called],
                       inf, 1, file, refs)
        stats == price_written_or_counted(run.table, refs, w.price_supplier)
    IN  IF w.raised
        THEN [run EXCEPT !.raised = TRUE, !.current_code = w.current_code,
                         !.called = w.called]
        ELSE [run EXCEPT !.table = stats.table, !.current_code = w.current_code,
                         !.emitted = w.emitted,
                         !.called = w.called \cup
                             (IF w.price_supplier # <<>> THEN {"add_supplier_price"}
                              ELSE {}),
                         !.stats = Append(@, [stats EXCEPT !.table = <<>>])]

RECURSIVE parse_files_from(_, _, _, _)
parse_files_from(run, sheets, n, refs) ==
    IF n > Len(FILENAME_MAPPING) \/ run.raised THEN run
    ELSE parse_files_from(_parse_file(run, sheets[n], FILENAME_MAPPING[n], refs),
                          sheets, n + 1, refs)

\* lines 211-219: seed the code counter, clear the supplier's prices, walk
\* the files in the order of FILENAME_MAPPING
_parse_files(table, sheets, refs) ==
    LET code_max == max_code_or_zero(refs)
    IN  parse_files_from([table |-> cleared_or_kept(table, refs),
                          code_max |-> code_max, current_code |-> code_max + 1,
                          emitted |-> <<>>, stats |-> <<>>, raised |-> FALSE,
                          called |-> {"get_max_code_async", "clear_supplier_price"}],
                         sheets, 1, refs)

(***************************************************************************)
(* The store handle (db/factory.py)                                         *)
(***************************************************************************)
\* str(settings.DB_SQLITE_PATH), the key of a call without connection_string
DB_SQLITE_PATH == "data/price_flow.db"

\* connection strings that callers pass
Keys == {DB_SQLITE_PATH, "data/other.db"}

Tasks == 1..MaxTasks

\* who asks: a direct call of get_manager, the _get_db_manager of a shared
\* repository, the _get_db_manager of the shared LoaderCodes
Callers == {"factory", "repo", "loader"}

NotInInstances_Always(instances, key) == TRUE

\* lines 28 and 30: key not in AsyncDatabaseFactory._instances
NotInInstances(instances, key) == instances[key] = 0

\* a task that has not called yet
IdleTask ==
    [pc |-> "idle", caller |-> "", key |-> "", manager |-> 0, result |-> 0,
     locked |-> FALSE]

\* the factory and the lazy fields before the first call
InitHandles ==
    /\ _instances = [k \in Keys |-> 0]
    /\ _lock = 0
    /\ managers = <<>>
    /\ _db_manager = [repo |-> 0, loader |-> 0]
    /\ _db_manager_lock = 0

InitNoTasks == InitHandles /\ tasks = <<>>

(***************************************************************************)
(* Uploaded files and requests of the import endpoint                       *)
(* (api/v1/prices/closing_codes.py)                                         *)
(***************************************************************************)
Item(code, name, category, supplier_id) ==
    [code |-> code, name |-> name, category |-> category, subcategory |-> None,
     supplier_id |-> supplier_id, product_summary |-> <<"p">>, size |-> None,
     color |-> None, supplier_code |-> None, description |-> None]

\* records of an uploaded file: valid ones (one with a name that validation
\* strips, one with an empty cell), one with code 0 and one with a blank name
ImportItems ==
    {Item(1, <<"a">>, <<"A">>, DEFAULT_SUPPLIER_ID),
     Item(1, <<SP, "b">>, <<"B">>, DEFAULT_SUPPLIER_ID),
     Item(2, <<"a">>, NaN, DEFAULT_SUPPLIER_ID),
     Item(1, <<"a">>, <<"A">>, LANSETI_DEFAULT_SUPPLIER_ID),
     Item(0, <<"a">>, <<"A">>, DEFAULT_SUPPLIER_ID),
     Item(2, <<SP>>, <<"A">>, LANSETI_DEFAULT_SUPPLIER_ID)}

ImportFiles == UNION {[1..n -> ImportItems] : n \in 0..MaxBatch}

\* the optional supplier_id_filter query parameter
Filters == {<<>>, <<0>>} \cup {<<s>> : s \in Suppliers}

NoRequest == [op |-> "none"]
NoResult == [status |-> "none"]

InitStore ==
    /\ product_codes = EmptyBag
    /\ clothing_codes = EmptyBag
    /\ price = EmptyBag
    /\ schema = sql_script_create_table
    /\ req = NoRequest
    /\ res = NoResult

InitNoSheet ==
    /\ df = <<>>
    /\ neighbors_df = <<>>
    /\ filled_df = <<>>
    /\ uploads = {}

\* one call of import_clothing_codes on the stored table; rerun tells whether
\* the call repeats the request that was answered last
HandleImport(file, strategy, supplier_id_filter, rerun) ==
    LET out == import_clothing_codes(clothing_codes, schema.clothing_codes,
                                     file, strategy, supplier_id_filter)
    IN  /\ clothing_codes' = out.table
        /\ req' = [op |-> "import", file |-> file, strategy |-> strategy,
                   supplier_id_filter |-> supplier_id_filter,
                   before |-> [product_codes |-> product_codes,
                               clothing_codes |-> clothing_codes,
                               price |-> price, schema |-> schema],
                   rerun |-> rerun]
        /\ res' = out.res
        /\ UNCHANGED <<product_codes, price, schema, fill_vars, handle_vars>>

\* POST /import with a new upload
ImportOf(files, filters) ==
    /\ req = NoRequest
    /\ \E file \in files, strategy \in Strategies, supplier_id_filter \in filters :
           HandleImport(file, strategy, supplier_id_filter, FALSE)

Import == ImportOf(ImportFiles, Filters)

\* the client sends the request it has just been answered once more
ImportAgain ==
    /\ req.op = "import"
    /\ HandleImport(req.file, req.strategy, req.supplier_id_filter, TRUE)

\* the answer has been delivered; the next request starts from the store alone
Return ==
    /\ req # NoRequest
    /\ req' = NoRequest
    /\ res' = NoResult
    /\ UNCHANGED <<store_vars, fill_vars, handle_vars>>

InitImport == InitStore /\ InitNoSheet /\ InitNoTasks

NextImport == Import \/ ImportAgain \/ Return

\* the import endpoint alone, on the schema the application creates
SpecImport == InitImport /\ [][NextImport]_vars

(***************************************************************************)
(* Properties of the import endpoint                                        *)
(***************************************************************************)
ImportCalled == req.op = "import"

ImportReturned == ImportCalled /\ res.status = "ImportResult"

\* the records of the request that are left after cleaning and the supplier filter
RequestData ==
    FilterBySupplier([i \in 1..Len(req.file) |-> CleanItem(req.file[i])],
                     req.supplier_id_filter)

StoreNow ==
    [product_codes |-> product_codes, clothing_codes |-> clothing_codes,
     price |-> price, schema |-> schema]

CountIn(log, d) == Cardinality({i \in 1..Len(log) : log[i] = d})

AllValid(data) == \A i \in 1..Len(data) : ClothingCodeCreateValid(data[i])

DistinctKeys(data) ==
    \A i, j \in 1..Len(data) : Key(data[i]) = Key(data[j]) => i = j

SupplierRows(table, supplier_id) ==
    [r \in {q \in Rows(table) : q.supplier_id = supplier_id} |-> table[r]]

\* every record is counted once and the counters add up to total
Accounted(total) ==
    /\ res.created + res.updated + res.skipped + Len(res.errors) = total
    /\ Len(res.log) = total
    /\ res.created = CountIn(res.log, "created")
    /\ res.updated = CountIn(res.log, "updated")
    /\ res.skipped = CountIn(res.log, "skipped")
    /\ Len(res.errors) = CountIn(res.log, "error")

\* C2, as stated: a returning import with a strategy other than validate_only
\* counts every record of the uploaded input in exactly one of created,
\* updated, skipped and errors, and the four add up to the number of input
\* records, supplier filter or not.
OutcomeCompletenessOfInput ==
    (ImportReturned /\ req.strategy # "validate_only") => Accounted(Len(req.file))

\* C2, amended: a returning import with a strategy other than validate_only
\* counts every record that is left after the supplier filter in exactly one
\* of created, updated, skipped and errors; the four add up to the number of
\* those records, which is the outcome's total_records.  Records of other
\* suppliers than the filter's are counted nowhere.
OutcomeCompleteness ==
    (ImportReturned /\ req.strategy # "validate_only") =>
        /\ res.total_records = Len(RequestData)
        /\ Accounted(res.total_records)

\* an upsert with a supplier filter and a repeated key: one record created,
\* the other one reported as an error
OutcomeCompletenessWitness ==
    /\ ImportReturned
    /\ req.strategy = "upsert"
    /\ Truthy(req.supplier_id_filter)
    /\ ~DistinctKeys(RequestData)
    /\ res.created = 1
    /\ Len(res.errors) = 1

\* an import that has reached upsert_bulk
UpsertBulkCalled ==
    ImportReturned /\ req.strategy = "upsert" /\ res.message = "import done"

\* a row with the key of the i-th record is stored when its turn comes: it
\* was there before the call or an earlier record of the call has created it
KeyStoredAt(i) ==
    \/ \E r \in Rows(req.before.clothing_codes) : Key(r) = Key(RequestData[i])
    \/ \E j \in 1..(i - 1) :
           Key(RequestData[j]) = Key(RequestData[i]) /\ res.log[j] = "created"

\* the error entries of the i-th record (row is the 0-based position)
ErrorsOf(i) == {k \in 1..Len(res.errors) : res.errors[k].row = i - 1}

FirstOccurrences ==
    {i \in 1..Len(RequestData) :
        \A j \in 1..(i - 1) : Key(RequestData[j]) # Key(RequestData[i])}

\* C26: after an import with strategy replace_all no row from before the
\* call is left and the table holds one row per distinct (code, supplier_id)
\* of the input, the first occurrence in input order; created is the number
\* of distinct keys and every repeated occurrence of a key gives one error
\* entry and leaves the stored row as it is.
ReplaceAllResult ==
    (ImportReturned /\ req.strategy = "replace_all") =>
        /\ clothing_codes =
               SetToBag({ClothingCodeCreate(RequestData[i]) : i \in FirstOccurrences})
        /\ res.created = Cardinality(FirstOccurrences)
        /\ \A i \in 1..Len(RequestData) :
               Cardinality(ErrorsOf(i)) = IF i \in FirstOccurrences THEN 0 ELSE 1
        /\ Len(res.errors) = Len(RequestData) - Cardinality(FirstOccurrences)

\* a replace_all import of two records with one key and different values on
\* a table that held a row of another key
ReplaceAllWitness ==
    /\ ImportReturned
    /\ req.strategy = "replace_all"
    /\ Len(RequestData) = 2
    /\ Key(RequestData[1]) = Key(RequestData[2])
    /\ RequestData[1] # RequestData[2]
    /\ \E r \in Rows(req.before.clothing_codes) : Key(r) # Key(RequestData[1])
    /\ Cardinality(Rows(clothing_codes)) = 1

\* C3: an upsert of N valid records with pairwise distinct keys that is run a
\* second time with the same input leaves the store as the first run left it
\* and reports created = 0, updated = N and no errors.
UpsertIdempotence ==
    (/\ ImportCalled
     /\ req.strategy = "upsert"
     /\ req.rerun
     /\ AllValid(RequestData)
     /\ DistinctKeys(RequestData)
     /\ RequestData # <<>>) =>
        /\ res.status = "ImportResult"
        /\ res.created = 0
        /\ res.updated = Len(RequestData)
        /\ res.errors = <<>>
        /\ StoreNow = req.before

\* the second run of a valid upsert with distinct keys has been answered
UpsertIdempotenceWitness ==
    /\ ImportReturned
    /\ req.strategy = "upsert"
    /\ req.rerun
    /\ AllValid(RequestData)
    /\ DistinctKeys(RequestData)
    /\ Len(RequestData) = MaxBatch

\* C4: a validate_only import leaves every table as it was; when it returns,
\* created = updated = skipped = 0 and errors is the list of the validation
\* failures.
ValidateOnlyNoSideEffects ==
    (ImportCalled /\ req.strategy = "validate_only") =>
        /\ StoreNow = req.before
        /\ ImportReturned =>
              /\ res.created = 0
              /\ res.updated = 0
              /\ res.skipped = 0
              /\ res.errors = ValidateAll(RequestData).errors

\* a dry run over a non-empty store of a file with a valid and an invalid record
ValidateOnlyWitness ==
    /\ ImportReturned
    /\ req.strategy = "validate_only"
    /\ clothing_codes # EmptyBag
    /\ Len(res.errors) = 1
    /\ res.total_records = 2

\* C5: after a returning replace_supplier import with supplier filter S of a
\* batch whose records for S have distinct codes, the clothing rows of S are
\* exactly the batch's records for S, as validation normalised them, and the
\* rows of every other supplier are as they were, also when the file holds
\* records of other suppliers.
ReplaceSupplierScope ==
    (/\ ImportReturned
     /\ req.strategy = "replace_supplier"
     /\ Truthy(req.supplier_id_filter)
     /\ DistinctKeys(RequestData)) =>
        LET S == req.supplier_id_filter[1]
            batch == {ClothingCodeCreate(RequestData[i]) : i \in 1..Len(RequestData)}
        IN  /\ SupplierRows(clothing_codes, S) = SetToBag(batch)
            /\ \A s \in Suppliers \ {S} :
                   SupplierRows(clothing_codes, s) =
                       SupplierRows(req.before.clothing_codes, s)

\* a replace of supplier S from a file that also holds a record of another
\* supplier, over a store with a row of S the batch lacks and a row of the other
ReplaceSupplierWitness ==
    /\ ImportReturned
    /\ req.strategy = "replace_supplier"
    /\ Truthy(req.supplier_id_filter)
    /\ Len(RequestData) < Len(req.file)
    /\ \E r \in Rows(req.before.clothing_codes) :
           /\ r.supplier_id = req.supplier_id_filter[1]
           /\ \A i \in 1..Len(RequestData) : Key(RequestData[i]) # Key(r)
    /\ \E r \in Rows(req.before.clothing_codes) :
           r.supplier_id # req.supplier_id_filter[1]

\* the keys stored at the moment record i of data is processed by a skip import
KeysBefore(data, i) ==
    {Key(r) : r \in Rows(req.before.clothing_codes)}
        \cup {Key(data[j]) : j \in 1..(i - 1)}

\* C6: in a returning skip import, a record whose (supplier_id, code) has a
\* stored row when it is processed is counted as skipped, any other record is
\* inserted and counted as created, and every row stored before the import
\* is still stored unchanged.
SkipStrategy ==
    (ImportReturned /\ req.strategy = "skip") =>
        LET data == RequestData
            hit == {i \in 1..Len(data) : Key(data[i]) \in KeysBefore(data, i)}
            new == (1..Len(data)) \ hit
        IN  /\ \A i \in hit : res.log[i] = "skipped"
            /\ \A i \in new : res.log[i] = "created"
            /\ res.skipped = Cardinality(hit)
            /\ res.created = Cardinality(new)
            /\ res.errors = <<>>
            /\ \A r \in Rows(req.before.clothing_codes) :
                   CopiesIn(r, clothing_codes) = CopiesIn(r, req.before.clothing_codes)
            /\ clothing_codes =
                   req.before.clothing_codes
                       (+) SetToBag({ClothingCodeCreate(data[i]) : i \in new})

\* a skip import that inserts one record and skips one whose stored row
\* differs from the uploaded record
SkipStrategyWitness ==
    /\ ImportReturned
    /\ req.strategy = "skip"
    /\ res.created = 1
    /\ res.skipped = 1
    /\ \E i \in 1..Len(RequestData), r \in Rows(req.before.clothing_codes) :
           /\ Key(r) = Key(RequestData[i])
           /\ r # ClothingCodeCreate(RequestData[i])

\* C10, as stated: under any strategy a record that fails validation is in the
\* error list of the returned outcome with its row index and data, and the
\* valid records of the batch are processed under the strategy.
ValidationErrorsNeverAbort ==
    (ImportCalled /\ RequestData # <<>>) =>
        LET v == ValidateAll(RequestData)
        IN  /\ res.status = "ImportResult"
            /\ \A k \in 1..Len(v.errors) :
                   \E j \in 1..Len(res.errors) :
                       /\ res.errors[j].row = v.errors[k].row
                       /\ res.errors[j].data = v.errors[k].data
            /\ req.strategy # "validate_only" => Len(res.log) = Len(v.items)

\* C10, amended: validate_only returns the records that fail validation in
\* the error list of the outcome, each with its row index and data; under any
\* other strategy one failing record rejects the whole batch: the call raises
\* HTTP 400 whose detail carries that list, no record is processed and the
\* store is left as it was.
ValidationErrorsRejectBatch ==
    (ImportCalled /\ RequestData # <<>> /\ ~AllValid(RequestData)) =>
        LET v == ValidateAll(RequestData)
        IN  /\ res.errors = v.errors
            /\ \A k \in 1..Len(v.errors) :
                   /\ v.errors[k].data = RequestData[v.errors[k].row + 1]
                   /\ ~ClothingCodeCreateValid(v.errors[k].data)
            /\ res.log = <<>>
            /\ StoreNow = req.before
            /\ res.status =
                   IF req.strategy = "validate_only" THEN "ImportResult"
                   ELSE "HTTPException"

\* an upsert of a valid and an invalid record has been rejected
ValidationErrorsWitness ==
    /\ ImportCalled
    /\ req.strategy = "upsert"
    /\ res.status = "HTTPException"
    /\ Len(RequestData) = 2
    /\ Len(res.errors) = 1

\* C27: under upsert, skip, replace_supplier and replace_all an input that,
\* after the supplier filter, holds at least one record that fails
\* validation ends the call with an error before any delete or insert: the
\* store is as it was, and the replace strategies have wiped nothing.
ValidationPrecedesMutation ==
    (/\ ImportCalled
     /\ req.strategy \in {"upsert", "skip", "replace_supplier", "replace_all"}
     /\ ~AllValid(RequestData)) =>
        /\ res.status = "HTTPException"
        /\ res.created = 0
        /\ StoreNow = req.before

\* a replace import with an invalid record has been answered on a table that
\* held rows the wipe of the strategy would have deleted
ValidationPrecedesMutationWitness ==
    /\ ImportCalled
    /\ req.strategy \in {"replace_supplier", "replace_all"}
    /\ ~AllValid(RequestData)
    /\ \E i \in 1..Len(RequestData) : ClothingCodeCreateValid(RequestData[i])
    /\ ClearBeforeImport(req.before.clothing_codes, req.strategy,
                         req.supplier_id_filter) # req.before.clothing_codes

(***************************************************************************)
(* Sheets handed to the gap-fill pipeline                                   *)
(***************************************************************************)
Row(name, category, subcategory) ==
    [name |-> name, category |-> category, subcategory |-> subcategory]

Tovar == <<"T", "o", "v", "a", "r">>
Licenziya == <<"L", "i", "c", "e", "n", "z", "i", "y", "a">>
VINTAG == <<"V", "I", "N", "T", "A", "G">>
Montale == <<"M", "o", "n", "t", "a", "l", "e">>
Montale_dekodirovannyj == <<"M", "o", "n", "t", "a", "l", "e", " ", "d", "e", "k", "o", "d", "i", "r", "o", "v", "a", "n", "n", "y", "j">>

\* rows as the reference merge leaves them: categorized ones, gaps, rows with
\* one value only, names that match a rule and names that match none
SheetRows ==
    {Row(Tovar, <<"X">>, <<"Y">>), Row(Tovar, <<"Z">>, <<"W">>),
     Row(Tovar, NaN, NaN), Row(Tovar, <<"Z">>, NaN),
     Row(Licenziya, <<"X">>, <<"Y">>), Row(VINTAG, NaN, NaN),
     Row(Montale_dekodirovannyj, NaN, <<"Y">>), Row(Montale, NaN, NaN),
     Row(NaN, NaN, NaN)}

Sheets == UNION {[1..n -> SheetRows] : n \in 0..MaxRecords}

InitFill ==
    /\ InitStore
    /\ df \in Sheets
    /\ neighbors_df = <<>>
    /\ filled_df = <<>>
    /\ uploads = {}
    /\ InitNoTasks

\* one call of _fill_missing_data on the merged sheet; neighbors_df keeps what
\* the neighbor pass handed to the rule pass
HandleFillMissingData(rerun) ==
    LET out == fill_missing_data_call(df)
    IN  /\ req' = [op |-> "fill", rerun |-> rerun,
                   before |-> [df |-> df, filled_df |-> filled_df]]
        /\ neighbors_df' = _fill_missing_from_neighbors(WithFlags(df))
        /\ filled_df' = out.result
        /\ df' = out.df
        /\ UNCHANGED <<store_vars, res, uploads, handle_vars>>

FillMissingData ==
    /\ req = NoRequest
    /\ HandleFillMissingData(FALSE)

\* the pipeline is invoked once more on the frame of the first invocation
FillMissingDataAgain ==
    /\ req.op = "fill"
    /\ ~req.rerun
    /\ HandleFillMissingData(TRUE)

NextFill == FillMissingData

\* the gap-fill pipeline applied to every sheet of the bound
SpecFill == InitFill /\ [][NextFill]_vars

(***************************************************************************)
(* Properties of the gap-fill pipeline                                      *)
(***************************************************************************)
FillDone == req.op = "fill"

HasGap(row) == isna(row.category) \/ isna(row.subcategory)

\* the nearest categorized rows of the sheet before and after position i carry
\* equal category and equal subcategory
NeighborsAgree(sheet, i) ==
    LET above == {j \in 1..(i - 1) : Categorized(sheet[j])}
        below == {j \in (i + 1)..Len(sheet) : Categorized(sheet[j])}
    IN  /\ above # {}
        /\ below # {}
        /\ LET upper == sheet[CHOOSE j \in above : \A h \in above : h <= j]
               lower == sheet[CHOOSE j \in below : \A h \in below : j <= h]
           IN  /\ upper.category = lower.category
               /\ upper.subcategory = lower.subcategory

\* C8: the neighbor pass fills the record at a position with a missing
\* category or subcategory if and only if the sequence has a fully
\* categorized record before it and one after it and the nearest of each
\* side carry equal category and equal subcategory; otherwise the record
\* stays as it was.
NeighborAgreementFill ==
    FillDone =>
        \A i \in 1..Len(df) :
            HasGap(df[i]) =>
                /\ neighbors_df[i].filled_by_neighbors <=> NeighborsAgree(df, i)
                /\ Categorized(neighbors_df[i]) <=> NeighborsAgree(df, i)
                /\ ~NeighborsAgree(df, i) => neighbors_df[i] = WithFlags(df)[i]

\* a gap between two agreeing neighbors has been filled
NeighborAgreementWitness ==
    /\ FillDone
    /\ \E i \in 1..Len(df) :
           /\ HasGap(df[i])
           /\ NeighborsAgree(df, i)
           /\ neighbors_df[i].filled_by_neighbors

\* the nearest fully categorized record before position i of the sheet
UpperNeighbor(sheet, i) ==
    sheet[CHOOSE j \in {k \in 1..(i - 1) : Categorized(sheet[k])} :
              \A h \in {k \in 1..(i - 1) : Categorized(sheet[k])} : h <= j]

\* a pass that takes the neighbors of every record from the sheet it was
\* handed and fills the missing values of the records whose neighbors agree
ReferenceNeighborPass(sheet) ==
    [i \in 1..Len(sheet) |->
        IF HasGap(sheet[i]) /\ NeighborsAgree(sheet, i)
        THEN [name |-> sheet[i].name,
              category |-> IF isna(sheet[i].category)
                           THEN UpperNeighbor(sheet, i).category
                           ELSE sheet[i].category,
              subcategory |-> IF isna(sheet[i].subcategory)
                              THEN UpperNeighbor(sheet, i).subcategory
                              ELSE sheet[i].subcategory,
              filled_by_rule |-> FALSE, filled_by_neighbors |-> TRUE]
        ELSE WithFlags(sheet)[i]]

\* C28: the output of _fill_missing_from_neighbors, which looks for the
\* neighbors in the table it is updating while it walks from the first row
\* to the last, equals the output of a pass that takes the nearest fully
\* categorized neighbors of every record from the unmodified input, also
\* for records with a category and no subcategory or the reverse.
NeighborPassIndependence ==
    FillDone => neighbors_df = ReferenceNeighborPass(df)

\* the pass has completed a record that had one of the two values
NeighborPassWitness ==
    /\ FillDone
    /\ \E i \in 1..Len(df) :
           /\ HasGap(df[i])
           /\ notna(df[i].category) \/ notna(df[i].subcategory)
           /\ Categorized(neighbors_df[i])

\* C9: the rule pass changes category and subcategory only of records that
\* the neighbor pass left with a missing category or subcategory; a record
\* with both values keeps them even when its name matches a rule.
RuleFillOnlyGaps ==
    FillDone =>
        \A i \in 1..Len(df) :
            Categorized(neighbors_df[i]) =>
                /\ filled_df[i].category = neighbors_df[i].category
                /\ filled_df[i].subcategory = neighbors_df[i].subcategory

\* a gap the neighbor pass left open has been filled by a rule
RuleFillWitness ==
    /\ FillDone
    /\ \E i \in 1..Len(df) :
           /\ HasGap(neighbors_df[i])
           /\ filled_df[i].filled_by_rule
           /\ Categorized(filled_df[i])

(***************************************************************************)
(* Sheets and stores of a price-sync run (api/v1/prices/load_prices.py)     *)
(***************************************************************************)
Columns == {PRODUCT_SIGN_COLUMN, PRODUCT_NAME_COLUMN, PRODUCT_PRICE_COLUMN}
               \cup PRODUCT_SIZE_RANGE

\* a row with cells in the sign, name and price columns and in the first two
\* size columns; every other cell is empty
SheetRow(sign, name, first, second, cost) ==
    [c \in Columns |->
        CASE c = PRODUCT_SIGN_COLUMN -> sign
          [] c = PRODUCT_NAME_COLUMN -> name
          [] c = PRODUCT_PRICE_COLUMN -> cost
          [] c = PRODUCT_START_REMAINS_COLUMN -> first
          [] c = PRODUCT_START_REMAINS_COLUMN + 1 -> second
          [] OTHER -> NaN]

\* product rows (two sizes; a gap before the only size; no price) and
\* sub-rows (both remainders; a number and a remainder; no colour)
WalkRows ==
    {SheetRow(Float(1), <<"P">>, <<"S">>, <<"M">>, Float(5)),
     SheetRow(Float(1), cont, NaN, <<"M">>, Float(5)),
     SheetRow(Float(1), <<"P">>, <<"S">>, NaN, NaN),
     SheetRow(NaN, <<"c">>, <<"+">>, <<"+">>, NaN),
     SheetRow(NaN, <<"d">>, Float(3), <<"+">>, NaN),
     SheetRow(NaN, NaN, <<"+">>, NaN, NaN)}

Clothing(code, summary, size, color, category, supplier_id) ==
    [code |-> code, name |-> FullName(summary, size, color), category |-> category,
     subcategory |-> category, supplier_id |-> supplier_id,
     product_summary |-> summary, size |-> size, color |-> color,
     supplier_code |-> None, description |-> None]

Product(code, name, category, supplier_id) ==
    [code |-> code, name |-> name, category |-> category, subcategory |-> category,
     supplier_id |-> supplier_id]

ProductColumns == {"id", "code", "name", "category", "subcategory", "supplier_id"}

PriceRow(code, summary, size, color, category, supplier_id, cost) ==
    [code |-> code, name |-> FullName(summary, size, color), category |-> category,
     subcategory |-> category, supplier_id |-> supplier_id,
     product_summary |-> summary, size |-> size, color |-> color, price |-> cost]

\* the clothing code of the product "P S c", with or without category, as an
\* import leaves it
Reference(category) ==
    Clothing(7, <<"P">>, <<"S">>, <<"c">>, category, DEFAULT_SUPPLIER_ID)

\* a clothing code of the other supplier
OtherReference ==
    Clothing(9, <<"P">>, <<"M">>, <<"c">>, <<"A">>, LANSETI_DEFAULT_SUPPLIER_ID)

\* the reference catalog as a CSV load leaves it
LoadedProducts ==
    [table |-> SetToBag({Product(7, <<"P">>, <<"K">>, DEFAULT_SUPPLIER_ID)}),
     tschema |-> PandasTable(ProductColumns)]

NoProducts == [table |-> EmptyBag, tschema |-> ScriptTable(ProductColumns)]

\* prices as earlier runs of the two suppliers leave them
OldPrices ==
    SetToBag({PriceRow(3, <<"O">>, <<"S">>, <<"c">>, <<"?">>, DEFAULT_SUPPLIER_ID, 4),
              PriceRow(3, <<"O">>, <<"S">>, <<"c">>, <<"A">>,
                       LANSETI_DEFAULT_SUPPLIER_ID, 4)})

\* the stores a run starts from
SyncStores ==
    {[clothing |-> EmptyBag, product |-> NoProducts, prices |-> EmptyBag],
     [clothing |-> SetToBag({Reference(<<"A">>)}), product |-> LoadedProducts,
      prices |-> OldPrices],
     [clothing |-> SetToBag({Reference(None)}), product |-> NoProducts,
      prices |-> OldPrices],
     [clothing |-> SetToBag({Reference(<<"A">>), OtherReference}),
      product |-> NoProducts, prices |-> EmptyBag]}

InitSync ==
    /\ \E st \in SyncStores :
           /\ clothing_codes = st.clothing
           /\ price = st.prices
           /\ product_codes = st.product.table
           /\ schema = [sql_script_create_table EXCEPT
                           !.product_codes = st.product.tschema]
    /\ req = NoRequest
    /\ res = NoResult
    /\ InitNoSheet
    /\ InitNoTasks

\* one run of process_price over the downloaded sheets, one per file, with
\* the store operations of fails raising
HandleProcessPriceWith(sheets, fails) ==
    LET refs == [clothing |-> clothing_codes, product |-> product_codes,
                 supplier_id |-> DEFAULT_SUPPLIER_ID, price_schema |-> schema.price,
                 fails |-> fails]
        run == _parse_files(price, sheets, refs)
    IN  /\ price' = run.table
        /\ req' = [op |-> "sync", sheets |-> sheets, fails |-> fails,
                   supplier_id |-> DEFAULT_SUPPLIER_ID,
                   before |-> [product_codes |-> product_codes,
                               clothing_codes |-> clothing_codes,
                               price |-> price, schema |-> schema]]
        /\ res' = [status |-> IF run.raised THEN "DownloadError" ELSE "DataFrame",
                   code_max |-> run.code_max, emitted |-> run.emitted,
                   stats |-> run.stats, called |-> run.called]
        /\ UNCHANGED <<product_codes, clothing_codes, schema, fill_vars, handle_vars>>

\* a run in which every store operation works
HandleProcessPrice(sheets) == HandleProcessPriceWith(sheets, {})

\* POST /load-price-nulan with sheets of at most max_rows rows together
ProcessPriceOf(rows, max_rows) ==
    /\ req = NoRequest
    /\ \E n \in 0..max_rows :
           \E m \in 0..(max_rows - n) :
               \E first \in [1..n -> rows], second \in [1..m -> rows] :
                   HandleProcessPrice(<<first, second>>)

ProcessPrice == ProcessPriceOf(WalkRows, MaxSheetRows)

NextSync == ProcessPrice

\* one price-sync run of the nulan supplier over every store of InitSync
SpecSync == InitSync /\ [][NextSync]_vars

(***************************************************************************)
(* Properties of the price sync                                             *)
(***************************************************************************)
SyncCalled == req.op = "sync"

\* the clothing codes of the run's supplier hold no row with the record's name
NoReferenceMatch(item) ==
    \A r \in Rows(req.before.clothing_codes) :
        r.supplier_id = req.supplier_id => r.name # Strip(item.name)

\* the positions of the emitted records without a reference match
Unmatched == {i \in 1..Len(res.emitted) : NoReferenceMatch(res.emitted[i])}

\* the maximum clothing code of the run's supplier at the start of the run
MaxCodeBefore ==
    LET codes == {r.code : r \in {q \in Rows(req.before.clothing_codes) :
                                      q.supplier_id = req.supplier_id}}
    IN  IF codes = {} THEN 0 ELSE CHOOSE c \in codes : \A d \in codes : d <= c

\* C7: in a price-sync run of a supplier whose maximum clothing code at the
\* start is M, the k-th emitted record without a reference match, in walk
\* order across the files, carries code M + k.
SyntheticCodeAssignment ==
    SyncCalled =>
        \A i \in Unmatched :
            res.emitted[i].code =
                MaxCodeBefore + Cardinality({j \in Unmatched : j <= i})

\* a run has emitted two records without a reference match from two files
SyntheticCodeWitness ==
    /\ SyncCalled
    /\ Cardinality(Unmatched) = 2
    /\ Len(req.sheets[1]) > 0
    /\ Len(req.sheets[2]) > 0
    /\ MaxCodeBefore > 0

(***************************************************************************)
(* The reference catalog load (repositories/supplier_codes_repo.py)         *)
(***************************************************************************)
Digits == <<"0", "1", "2", "3", "4", "5", "6", "7", "8", "9">>

IsNumber(s) ==
    /\ s # <<>>
    /\ \A i \in 1..Len(s) : \E d \in 1..Len(Digits) : Digits[d] = s[i]

RECURSIVE NumberOf(_)
NumberOf(s) ==
    IF s = <<>> THEN 0
    ELSE 10 * NumberOf(SubSeq(s, 1, Len(s) - 1))
         + (CHOOSE d \in 0..9 : Digits[d + 1] = s[Len(s)])

\* pd.to_numeric(column, errors='coerce').astype('Int64') of a cell read with
\* dtype=str: the number a digit string spells, NA for any other text
to_numeric(s) == IF IsNumber(s) THEN NumberOf(s) ELSE NaN

\* lines 415-441: supplier_id and code become integers, the text columns
\* stay as they were read
_optimize_dataframe_types(row) ==
    [row EXCEPT !.code = to_numeric(@), !.supplier_id = to_numeric(@)]

\* the rows of a frame as DataFrame.to_sql writes them: one table row each
RECURSIVE to_sql(_, _)
to_sql(frame, i) ==
    IF i > Len(frame) THEN EmptyBag
    ELSE SetToBag({frame[i]}) (+) to_sql(frame, i + 1)

\* lines 363-413: to_sql(if_exists="replace") drops the table and creates it
\* from the frame, without constraints; _create_indexes adds plain indexes
_load_dataframe_to_db(frame) ==
    [table |-> to_sql([i \in 1..Len(frame) |->
                           _optimize_dataframe_types(frame[i])], 1),
     tschema |-> PandasTable(ProductColumns)]

\* lines 123-188 with _read_csv_file and _validate_data_frame: a file
\* without data rows raises before anything is written
codes_sync_load_operation(table, tschema, frame) ==
    IF Len(frame) = 0
    THEN [table |-> table, tschema |-> tschema, status |-> "CSVParsingError",
          rows_loaded |-> 0]
    ELSE LET out == _load_dataframe_to_db(frame)
         IN  [table |-> out.table, tschema |-> out.tschema,
              status |-> "success", rows_loaded |-> Len(frame)]

(***************************************************************************)
(* The clothing refresh and the admin operations                            *)
(* (repositories/supplier_clothing_repo.py)                                 *)
(***************************************************************************)
\* df[col].astype(str).str.strip() of a text column: an empty cell becomes
\* the text 'nan'
ExcelText(v) == IF v = NaN THEN <<"n", "a", "n">> ELSE Strip(v)

\* lines 618-676
_load_excel_data(sheet) ==
    [i \in 1..Len(sheet) |->
        [sheet[i] EXCEPT !.category = ExcelText(@), !.subcategory = ExcelText(@)]]

\* UPDATE supplier_price SET category = ?, subcategory = ?
\* WHERE code = ? AND supplier_id = ?
RECURSIVE UpdateWhere(_, _, _)
UpdateWhere(table, hit, row) ==
    IF hit = {} THEN table
    ELSE LET r == CHOOSE q \in hit : TRUE
             set == [r EXCEPT !.category = row.category,
                              !.subcategory = row.subcategory]
             rest == [q \in Rows(table) \ {r} |-> table[q]]
         IN  UpdateWhere(rest (+) [q \in {set} |-> table[r]], hit \ {r}, row)

RECURSIVE update_price_categories(_, _, _)
update_price_categories(table, frame, i) ==
    IF i > Len(frame) THEN table
    ELSE update_price_categories(
           UpdateWhere(table, {r \in Rows(table) : Key(r) = Key(frame[i])}, frame[i]),
           frame, i + 1)

\* the eight columns the INSERT ... SELECT copies; the two it leaves out take
\* the default of the target table
ClothingOfPrice(p, tschema) ==
    [code |-> p.code, name |-> p.name, category |-> p.category,
     subcategory |-> p.subcategory, supplier_id |-> p.supplier_id,
     product_summary |-> p.product_summary, size |-> p.size, color |-> p.color,
     supplier_code |-> tschema.text_default, description |-> tschema.text_default]

\* the statement that lines 832-848 keep as a comment: ON CONFLICT DO UPDATE
\* overwrites the row that holds the key
update_supplier_clothing_Upsert(table, tschema, prices) ==
    LET source == {ClothingOfPrice(p, tschema) : p \in Rows(prices)}
    IN  [r \in {q \in Rows(table) : \A c \in source : Key(c) # Key(q)} |-> table[r]]
            (+) SetToBag(source)

\* lines 819-863: INSERT OR IGNORE INTO supplier_clothing_codes SELECT ... FROM
\* supplier_price. A row is ignored when it violates a constraint of the
\* target; the CHECKs of supplier_price imply those of the target, so what
\* is left is UNIQUE (code, supplier_id), where the target has it
update_supplier_clothing(table, tschema, prices) ==
    LET source == {ClothingOfPrice(p, tschema) : p \in Rows(prices)}
    IN  IF tschema.unique
        THEN table (+) SetToBag({c \in source :
                                    \A r \in Rows(table) : Key(r) # Key(c)})
        ELSE table (+) SetToBag(source)

\* lines 678-723: the categories of the sheet go into supplier_price, then
\* the clothing codes are refreshed from supplier_price
_update_categories(clothing, tschema, prices, frame) ==
    LET updated == update_price_categories(prices, frame, 1)
    IN  [price |-> updated,
         clothing |-> update_supplier_clothing(clothing, tschema, updated)]

\* lines 30-89: the legacy table replaces supplier_clothing_codes through
\* to_sql(if_exists='replace'): nine columns, no constraint
LegacyColumns ==
    {"id", "code", "name", "category", "subcategory", "supplier_id",
     "product_summary", "size", "color"}

transfer_with_column_rename(source) ==
    [table |-> source, tschema |-> PandasTable(LegacyColumns)]

\* lines 926-1005: a new table with UNIQUE (code, supplier_id) and '' as the
\* default of supplier_code and description takes the place of the old one,
\* whose rows are not copied
fix_supplier_id_type ==
    [table |-> EmptyBag,
     tschema |-> [ScriptTable(ClothingFields \cup {"id"}) EXCEPT
                     !.text_default = <<>>]]

(***************************************************************************)
(* Every write operation on the three code tables                           *)
(***************************************************************************)
CsvRow(code, name, category, supplier_id) ==
    [code |-> code, name |-> name, category |-> category, subcategory |-> category,
     supplier_id |-> supplier_id]

\* data rows of a reference CSV: a product and the same code of the same
\* supplier once more under another name
CsvRows ==
    {CsvRow(<<"7">>, <<"P">>, <<"K">>, <<"5", "6", "4">>),
     CsvRow(<<"7">>, <<"Q">>, <<"L">>, <<"5", "6", "4">>)}

CsvFiles == UNION {[1..n -> CsvRows] : n \in 0..MaxCsvRows}

\* POST of a reference catalog: load_file_to_db -> load_data
HandleLoadCodes(frame) ==
    LET out == codes_sync_load_operation(product_codes, schema.product_codes, frame)
    IN  /\ product_codes' = out.table
        /\ schema' = [schema EXCEPT !.product_codes = out.tschema]
        /\ req' = [op |-> "load_codes", frame |-> frame]
        /\ res' = [status |-> out.status, rows_loaded |-> out.rows_loaded]
        /\ UNCHANGED <<clothing_codes, price, fill_vars, handle_vars>>

LoadCodes ==
    /\ req = NoRequest
    /\ \E frame \in CsvFiles : HandleLoadCodes(frame)

\* uploads of one record
SingleRecordFiles ==
    {<<Item(1, <<"a">>, <<"A">>, DEFAULT_SUPPLIER_ID)>>,
     <<Item(2, <<"a">>, NaN, DEFAULT_SUPPLIER_ID)>>}

ImportCodes == ImportOf(SingleRecordFiles, {<<>>})

\* a product row with two sizes and a sub-row with both remainders
HeaderRow == SheetRow(Float(1), <<"P">>, <<"S">>, <<"M">>, Float(5))
SubRow == SheetRow(NaN, <<"c">>, <<"+">>, <<"+">>, NaN)

SyncPrice == ProcessPriceOf({HeaderRow, SubRow}, MaxSyncRows)

XlsxRow(code, category) ==
    [code |-> code, supplier_id |-> DEFAULT_SUPPLIER_ID, category |-> category,
     subcategory |-> category]

\* the sheet of POST /load-codes-nulan: no row, a row with categories, a
\* row with empty category cells
XlsxSheets == {<<>>, <<XlsxRow(1, <<"K">>)>>, <<XlsxRow(2, NaN)>>}

\* load_products -> load_file_to_db -> load_data -> _sync_load_operation
HandleLoadProducts(sheet) ==
    LET out == _update_categories(clothing_codes, schema.clothing_codes, price,
                                  _load_excel_data(sheet))
    IN  /\ BagCardinality(out.clothing) <= MaxClothingRows
        /\ price' = out.price
        /\ clothing_codes' = out.clothing
        /\ req' = [op |-> "load_products", sheet |-> sheet]
        /\ res' = [status |-> "UploadResult"]
        /\ UNCHANGED <<product_codes, schema, fill_vars, handle_vars>>

LoadProducts ==
    /\ req = NoRequest
    /\ \E sheet \in XlsxSheets : HandleLoadProducts(sheet)

\* the table products_codesupplierfile of the legacy database
LegacyTables ==
    {SetToBag({Clothing(1, <<"P">>, <<"S">>, <<"c">>, <<"A">>, DEFAULT_SUPPLIER_ID)})}

Transfer ==
    /\ req = NoRequest
    /\ \E source \in LegacyTables :
           LET out == transfer_with_column_rename(source)
           IN  /\ clothing_codes' = out.table
               /\ schema' = [schema EXCEPT !.clothing_codes = out.tschema]
    /\ req' = [op |-> "transfer"]
    /\ res' = [status |-> "None"]
    /\ UNCHANGED <<product_codes, price, fill_vars, handle_vars>>

\* upd_table -> fix_supplier_id_type
Migrate ==
    /\ req = NoRequest
    /\ clothing_codes' = fix_supplier_id_type.table
    /\ schema' = [schema EXCEPT !.clothing_codes = fix_supplier_id_type.tschema]
    /\ req' = [op |-> "migrate"]
    /\ res' = [status |-> "success"]
    /\ UNCHANGED <<product_codes, price, fill_vars, handle_vars>>

Init == InitStore /\ InitNoSheet /\ InitNoTasks

Next ==
    \/ LoadCodes
    \/ ImportCodes
    \/ SyncPrice
    \/ LoadProducts
    \/ Transfer
    \/ Migrate
    \/ Return

\* the write operations, one after another, from the empty store
Spec == Init /\ [][Next]_vars

(***************************************************************************)
(* Properties of the store                                                  *)
(***************************************************************************)
\* C1: after any write operation (CSV load, import, price sync, clothing
\* refresh, admin transfer or migration), none of the three code tables
\* holds two rows with the same (code, supplier_id).
UniqueCodePerSupplier ==
    /\ UniqueKeys(product_codes)
    /\ UniqueKeys(clothing_codes)
    /\ UniqueKeys(price)

\* a reference CSV of two data rows has been loaded
UniqueCodeWitness ==
    /\ req.op = "load_codes"
    /\ res.status = "success"
    /\ Len(req.frame) = 2

(***************************************************************************)
(* Concurrent first calls for the store handle                              *)
(* (db/factory.py, repositories/*.py, services/prices/load_codes.py)        *)
(* Every statement is a step of its own, so the interleavings include the   *)
(* ones the event loop allows at the awaits.                                *)
(***************************************************************************)
At(t, pc) == tasks[t].pc = pc

Goto(t, pc) == tasks' = [tasks EXCEPT ![t].pc = pc]

\* the call returns result to the task
Done(t, result) == tasks' = [tasks EXCEPT ![t].pc = "done", ![t].result = result]

\* a task calls get_manager(key), or _get_db_manager of the repository or
\* of the loader, which use the default key
Call(t) ==
    /\ At(t, "idle")
    /\ \E caller \in Callers :
           \E key \in IF caller = "factory" THEN Keys ELSE {DB_SQLITE_PATH} :
               tasks' = [tasks EXCEPT
                            ![t].caller = caller, ![t].key = key,
                            ![t].pc = CASE caller = "factory" -> "check"
                                        [] caller = "repo" -> "repo_check"
                                        [] caller = "loader" -> "loader_check"]
    /\ UNCHANGED <<_instances, _lock, managers, _db_manager, _db_manager_lock>>

\* repositories: if self._db_manager is None
RepoCheck(t) ==
    /\ At(t, "repo_check")
    /\ IF _db_manager.repo = 0 THEN Goto(t, "check") ELSE Done(t, _db_manager.repo)
    /\ UNCHANGED <<_instances, _lock, managers, _db_manager, _db_manager_lock>>

\* load_codes.py line 71: if self._db_manager is None
LoaderCheck(t) ==
    /\ At(t, "loader_check")
    /\ IF _db_manager.loader = 0
       THEN Goto(t, "loader_acquire")
       ELSE Done(t, _db_manager.loader)
    /\ UNCHANGED <<_instances, _lock, managers, _db_manager, _db_manager_lock>>

\* line 72: async with self._db_manager_lock
LoaderAcquire(t) ==
    /\ At(t, "loader_acquire")
    /\ _db_manager_lock = 0
    /\ _db_manager_lock' = t
    /\ Goto(t, "loader_recheck")
    /\ UNCHANGED <<_instances, _lock, managers, _db_manager>>

\* line 73: the second check, under the lock
LoaderRecheck(t) ==
    /\ At(t, "loader_recheck")
    /\ IF _db_manager.loader = 0 THEN Goto(t, "check") ELSE Goto(t, "loader_release")
    /\ UNCHANGED <<_instances, _lock, managers, _db_manager, _db_manager_lock>>

\* factory.py line 28
Check(t) ==
    /\ At(t, "check")
    /\ IF NotInInstances(_instances, tasks[t].key)
       THEN Goto(t, "acquire")
       ELSE Goto(t, "return")
    /\ UNCHANGED <<_instances, _lock, managers, _db_manager, _db_manager_lock>>

\* line 29: async with AsyncDatabaseFactory._lock
Acquire(t) ==
    /\ At(t, "acquire")
    /\ _lock = 0
    /\ _lock' = t
    /\ tasks' = [tasks EXCEPT ![t].pc = "recheck", ![t].locked = TRUE]
    /\ UNCHANGED <<_instances, managers, _db_manager, _db_manager_lock>>

\* line 30
Recheck(t) ==
    /\ At(t, "recheck")
    /\ IF NotInInstances(_instances, tasks[t].key)
       THEN Goto(t, "construct")
       ELSE Goto(t, "release")
    /\ UNCHANGED <<_instances, _lock, managers, _db_manager, _db_manager_lock>>

\* line 31: manager = SQLiteManager(key, **kwargs)
Construct(t) ==
    /\ At(t, "construct")
    /\ Len(managers) < MaxTasks
    /\ managers' = Append(managers, [key |-> tasks[t].key, initialized |-> FALSE])
    /\ tasks' = [tasks EXCEPT ![t].pc = "initialize", ![t].manager = Len(managers) + 1]
    /\ UNCHANGED <<_instances, _lock, _db_manager, _db_manager_lock>>

\* line 33: await manager.initialize()
Initialize(t) ==
    /\ At(t, "initialize")
    /\ managers' = [managers EXCEPT ![tasks[t].manager].initialized = TRUE]
    /\ Goto(t, "store")
    /\ UNCHANGED <<_instances, _lock, _db_manager, _db_manager_lock>>

\* line 34: AsyncDatabaseFactory._instances[key] = manager
Store(t) ==
    /\ At(t, "store")
    /\ _instances' = [_instances EXCEPT ![tasks[t].key] = tasks[t].manager]
    /\ Goto(t, "release")
    /\ UNCHANGED <<_lock, managers, _db_manager, _db_manager_lock>>

\* the end of the async with block
Release(t) ==
    /\ At(t, "release")
    /\ _lock' = 0
    /\ Goto(t, "return")
    /\ UNCHANGED <<_instances, managers, _db_manager, _db_manager_lock>>

\* line 36: return AsyncDatabaseFactory._instances[key]; a repository
\* assigns the value to its field and returns the field, the loader
\* assigns it to its field under its lock
ReturnManager(t) ==
    /\ At(t, "return")
    /\ LET manager == _instances[tasks[t].key]
       IN  CASE tasks[t].caller = "factory" ->
                    /\ Done(t, manager)
                    /\ UNCHANGED _db_manager
             [] tasks[t].caller = "repo" ->
                    /\ _db_manager' = [_db_manager EXCEPT !.repo = manager]
                    /\ Done(t, manager)
             [] tasks[t].caller = "loader" ->
                    /\ _db_manager' = [_db_manager EXCEPT !.loader = manager]
                    /\ Goto(t, "loader_release")
    /\ UNCHANGED <<_instances, _lock, managers, _db_manager_lock>>

\* load_codes.py: the end of the async with block
LoaderRelease(t) ==
    /\ At(t, "loader_release")
    /\ _db_manager_lock' = 0
    /\ Goto(t, "loader_return")
    /\ UNCHANGED <<_instances, _lock, managers, _db_manager>>

\* line 89: return self._db_manager
LoaderReturn(t) ==
    /\ At(t, "loader_return")
    /\ Done(t, _db_manager.loader)
    /\ UNCHANGED <<_instances, _lock, managers, _db_manager, _db_manager_lock>>

InitFactory ==
    /\ InitStore
    /\ InitNoSheet
    /\ InitHandles
    /\ tasks = [t \in Tasks |-> IdleTask]

NextFactory ==
    \E t \in Tasks :
        /\ \/ Call(t)
           \/ RepoCheck(t)
           \/ LoaderCheck(t)
           \/ LoaderAcquire(t)
           \/ LoaderRecheck(t)
           \/ Check(t)
           \/ Acquire(t)
           \/ Recheck(t)
           \/ Construct(t)
           \/ Initialize(t)
           \/ Store(t)
           \/ Release(t)
           \/ ReturnManager(t)
           \/ LoaderRelease(t)
           \/ LoaderReturn(t)
        /\ UNCHANGED <<store_vars, req, res, fill_vars>>

\* tasks that ask for the store handle for the first time, interleaved
SpecFactory == InitFactory /\ [][NextFactory]_vars

(***************************************************************************)
(* Properties of the store handle                                           *)
(***************************************************************************)
ManagersOf(key) == {m \in 1..Len(managers) : managers[m].key = key}

Returned == {t \in Tasks : tasks[t].pc = "done"}

\* C11: under every interleaving of concurrent first calls for the store
\* handle of a key (get_manager directly, or _get_db_manager of a repository
\* or of LoaderCodes), at most one SQLiteManager is constructed for the key,
\* and every caller receives that instance, initialized.
SingleStoreHandle ==
    /\ \A key \in Keys : Cardinality(ManagersOf(key)) <= 1
    /\ \A t \in Returned :
           /\ tasks[t].result \in ManagersOf(tasks[t].key)
           /\ managers[tasks[t].result].initialized
    /\ \A t, u \in Returned :
           tasks[t].key = tasks[u].key => tasks[t].result = tasks[u].result

\* every task has its handle; two of them, which came in by different ways
\* for the same key, both found no entry at the first check and took the lock
SingleStoreHandleWitness ==
    /\ Returned = Tasks
    /\ \E t, u \in Tasks :
           /\ t # u
           /\ tasks[t].key = tasks[u].key
           /\ tasks[t].caller # tasks[u].caller
           /\ tasks[t].locked
           /\ tasks[u].locked

(***************************************************************************)
(* Calls of add_supplier_price                                              *)
(* (repositories/supplier_clothing_repo.py)                                 *)
(***************************************************************************)
PriceItem(code, summary, cost) ==
    [code |-> code, name |-> FullName(summary, <<"S">>, <<"c">>),
     category |-> <<"?">>, subcategory |-> <<"?">>,
     supplier_id |-> DEFAULT_SUPPLIER_ID, product_summary |-> summary,
     size |-> <<"S">>, color |-> <<"c">>, price |-> cost]

\* SupplierProductPrice objects: two with the same code, one more code, one
\* with the code of a stored price, one with code 0 and one whose
\* product_summary is blank, which the CHECKs of supplier_price refuse
PriceItems ==
    {PriceItem(1, <<"P">>, 5), PriceItem(1, <<"Q">>, 6), PriceItem(2, <<"P">>, 5),
     PriceItem(3, <<"N">>, 7), PriceItem(0, <<"P">>, 5), PriceItem(2, <<SP>>, 5)}

\* values of the batch_size parameter: one that splits the list, the default
BatchSizes == {MaxPriceItems - 1, batch_size}

InitAddPrice ==
    /\ InitStore
    /\ InitNoSheet
    /\ InitNoTasks

HandleAddSupplierPrice(supplier_prices, size) ==
    LET out == add_supplier_price_by(price, schema.price, supplier_prices, size)
    IN  /\ price' = out.table
        /\ req' = [op |-> "add_supplier_price", supplier_prices |-> supplier_prices,
                   batch_size |-> size, before |-> [price |-> price]]
        /\ res' = [status |-> "stats", total |-> out.total, inserted |-> out.inserted,
                   updated |-> out.updated, skipped |-> out.skipped,
                   errors |-> out.errors, batches |-> out.batches]
        /\ UNCHANGED <<product_codes, clothing_codes, schema, fill_vars, handle_vars>>

\* one call on the table as the calls before left it
AddSupplierPrice ==
    /\ req = NoRequest
    /\ \E n \in 0..MaxPriceItems :
           \E supplier_prices \in [1..n -> PriceItems], size \in BatchSizes :
               HandleAddSupplierPrice(supplier_prices, size)

NextAddPrice == AddSupplierPrice \/ Return

SpecAddPrice == InitAddPrice /\ [][NextAddPrice]_vars

(***************************************************************************)
(* Properties of add_supplier_price                                         *)
(***************************************************************************)
AddCalled == req.op = "add_supplier_price"

\* the record passes when it is written alone
Insertable(item) == PriceChecks(PriceValues(item))

\* the batch the i-th record of the call belongs to
BatchOf(i) == (i - 1) \div req.batch_size

\* the last record of the call that passes alone and has the key of item
LastWrite(item) ==
    LET same == {j \in 1..Len(req.supplier_prices) :
                    /\ Insertable(req.supplier_prices[j])
                    /\ Key(req.supplier_prices[j]) = Key(item)}
    IN  req.supplier_prices[CHOOSE j \in same : \A k \in same : k <= j]

ExistedBeforeBatch(i) ==
    \/ \E r \in Rows(req.before.price) : Key(r) = Key(req.supplier_prices[i])
    \/ \E j \in 1..Len(req.supplier_prices) :
           /\ BatchOf(j) < BatchOf(i)
           /\ Insertable(req.supplier_prices[j])
           /\ Key(req.supplier_prices[j]) = Key(req.supplier_prices[i])

\* the positions of the records of the call that are written
Written == {i \in 1..Len(req.supplier_prices) : Insertable(req.supplier_prices[i])}

\* C24: with replace_duplicates a written record counts as updated exactly
\* when a price row with its (supplier_id, code) existed before its batch
\* was written and as inserted otherwise, so that N records with new keys
\* loaded into an empty table report inserted = N and updated = 0.
BatchStatistics ==
    AddCalled =>
        /\ res.updated = Cardinality({i \in Written : ExistedBeforeBatch(i)})
        /\ res.inserted = Cardinality({i \in Written : ~ExistedBeforeBatch(i)})

\* two records with new keys have been loaded into an empty table
BatchStatisticsWitness ==
    /\ AddCalled
    /\ req.before.price = EmptyBag
    /\ Len(req.supplier_prices) = 2
    /\ Written = {1, 2}
    /\ Key(req.supplier_prices[1]) # Key(req.supplier_prices[2])
    /\ Cardinality(Rows(price)) = 2

(***************************************************************************)
(* Price sync with refused rows and failing store operations                *)
(***************************************************************************)
\* the product row of HeaderRow with another price
RepricedRow == SheetRow(Float(1), <<"P">>, <<"S">>, <<"M">>, Float(6))

\* a product row whose name cell holds one blank
BlankNameRow == SheetRow(Float(1), <<SP>>, <<"S">>, <<"M">>, Float(5))

SnapshotRows == {HeaderRow, RepricedRow, BlankNameRow, SubRow}

\* no failure, or one store operation that raises throughout the run
Failures == {{}} \cup {{o} : o \in StoreOperations}

\* POST /load-price-nulan while the operations of fails raise
ProcessPriceFailing ==
    /\ req = NoRequest
    /\ \E fails \in Failures :
           \E n \in 0..MaxSheetRows :
               \E m \in 0..(MaxSheetRows - n) :
                   \E first \in [1..n -> SnapshotRows],
                      second \in [1..m -> SnapshotRows] :
                       HandleProcessPriceWith(<<first, second>>, fails)

\* POST /load-codes-nulan on the stores of InitSync
UploadCategories == LoadProducts

NextSnapshot == ProcessPriceFailing \/ UploadCategories

\* one price-sync run of the nulan supplier, or one category upload, over
\* every store of InitSync; the sheets of the run may hold a blank product
\* name and its store operations may raise
SpecSnapshot == InitSync /\ [][NextSnapshot]_vars

(***************************************************************************)
(* Properties of the price snapshot                                         *)
(***************************************************************************)
SyncCompleted == SyncCalled /\ res.status = "DataFrame"

\* the positions of the emitted records that no later record of the run
\* follows with the same code
LastPerCode ==
    {i \in 1..Len(res.emitted) :
        \A j \in (i + 1)..Len(res.emitted) :
            res.emitted[j].code # res.emitted[i].code}

\* the price rows of the run's supplier after the run
PriceOfSupplier == {r \in Rows(price) : r.supplier_id = req.supplier_id}

\* C13: after a completed price-sync run for supplier S the supplier_price
\* rows of S are exactly the records the walk of this run emitted, the last
\* write winning per code, one row each, so that no row of an earlier run
\* survives, and the rows of the other suppliers are as they were.
SnapshotReplacement ==
    SyncCompleted =>
        /\ PriceOfSupplier = {PriceValues(res.emitted[i]) : i \in LastPerCode}
        /\ \A r \in PriceOfSupplier : CopiesIn(r, price) = 1
        /\ \A r \in Rows(price) \cup Rows(req.before.price) :
               r.supplier_id # req.supplier_id =>
                   CopiesIn(r, price) = CopiesIn(r, req.before.price)

\* a completed run over a table with rows of both suppliers emitted one code
\* twice with two prices, and the table holds the snapshot of the run
SnapshotReplacementWitness ==
    /\ SyncCompleted
    /\ \E r, q \in Rows(req.before.price) :
           r.supplier_id = req.supplier_id /\ q.supplier_id # req.supplier_id
    /\ \E i, j \in 1..Len(res.emitted) :
           /\ i < j
           /\ res.emitted[i].code = res.emitted[j].code
           /\ res.emitted[i].price # res.emitted[j].price
    /\ PriceOfSupplier = {PriceValues(res.emitted[i]) : i \in LastPerCode}
    /\ \A r \in Rows(req.before.price) :
           r.supplier_id # req.supplier_id => r \in Rows(price)

\* the store operations that raised in the run
Raised == req.fails \cap res.called

\* C14: a price-sync run in which a store operation fails (the read of the
\* maximum code, the clearing of the price table, a lookup by name or by
\* code, a price batch write) aborts with an exception.
StoreFailureAborts ==
    SyncCalled /\ Raised # {} => res.status = "DownloadError"

\* a run in which a store operation raised has ended
StoreFailureWitness == SyncCalled /\ Raised # {}
\* the emitted record number i, or a later record of the run with its code,
\* is a row of supplier_price
Stored(i) ==
    \E j \in i..Len(res.emitted) :
        /\ res.emitted[j].code = res.emitted[i].code
        /\ PriceValues(res.emitted[j]) \in Rows(price)

UploadCalled == req.op = "load_products"

\* the categories of row number i of the uploaded sheet are on a price row
Applied(i) ==
    LET row == _load_excel_data(req.sheet)[i]
    IN  \E r \in Rows(price) :
            /\ Key(r) = Key(row)
            /\ r.category = row.category
            /\ r.subcategory = row.subcategory

\* C15: every record that a price-sync run or a category upload does not
\* persist is visible to the caller: the run ends in an exception (the
\* DataFrame of process_price and the UploadResult of load_products carry no
\* error entries), so a run that returns has stored every record.
NoSilentDrop ==
    /\ SyncCalled =>
           \/ res.status = "DownloadError"
           \/ \A i \in 1..Len(res.emitted) : Stored(i)
    /\ UploadCalled =>
           \/ res.status # "UploadResult"
           \/ \A i \in 1..Len(req.sheet) : Applied(i)

\* a run that returned its DataFrame emitted a record that is not stored
NoSilentDropWitness ==
    /\ SyncCompleted
    /\ \E i \in 1..Len(res.emitted) : ~Stored(i)
(***************************************************************************)
(* Clothing refresh from the price snapshot                                 *)
(***************************************************************************)
\* clothing codes before the refresh: two products of nulan, one without a
\* category, and the first code at the other supplier
RefreshClothing ==
    {Clothing(1, <<"P">>, <<"S">>, <<"c">>, <<"A">>, DEFAULT_SUPPLIER_ID),
     Clothing(2, <<"P">>, <<"M">>, <<"c">>, None, DEFAULT_SUPPLIER_ID),
     Clothing(1, <<"P">>, <<"S">>, <<"c">>, <<"A">>, LANSETI_DEFAULT_SUPPLIER_ID)}

\* price rows before the refresh: code 1 under another name and category,
\* code 2 with the category of the walk, a code the clothing codes never
\* hold, and code 1 of the other supplier
RefreshPrices ==
    {PriceRow(1, <<"Q">>, <<"S">>, <<"c">>, <<"K">>, DEFAULT_SUPPLIER_ID, 5),
     PriceRow(2, <<"P">>, <<"M">>, <<"c">>, <<"?">>, DEFAULT_SUPPLIER_ID, 5),
     PriceRow(3, <<"P">>, <<"L">>, <<"c">>, <<"?">>, DEFAULT_SUPPLIER_ID, 6),
     PriceRow(1, <<"P">>, <<"S">>, <<"c">>, <<"A">>, LANSETI_DEFAULT_SUPPLIER_ID, 4)}

\* supplier_clothing_codes as the script, the migration and the transfer
\* create it
ClothingSchemas ==
    {sql_script_create_table.clothing_codes, fix_supplier_id_type.tschema,
     transfer_with_column_rename(EmptyBag).tschema}

InitRefresh ==
    /\ \E rows \in SUBSET RefreshClothing :
           /\ Cardinality(rows) <= MaxRefreshRows
           /\ clothing_codes = SetToBag(rows)
    /\ \E rows \in SUBSET RefreshPrices :
           /\ Cardinality(rows) <= MaxRefreshRows
           /\ price = SetToBag(rows)
    /\ \E tschema \in ClothingSchemas :
           schema = [sql_script_create_table EXCEPT !.clothing_codes = tschema]
    /\ product_codes = EmptyBag
    /\ req = NoRequest
    /\ res = NoResult
    /\ InitNoSheet
    /\ InitNoTasks

\* one call of update_supplier_clothing
UpdateSupplierClothing ==
    /\ req = NoRequest
    /\ clothing_codes' =
           update_supplier_clothing(clothing_codes, schema.clothing_codes, price)
    /\ req' = [op |-> "update_supplier_clothing",
               before |-> [clothing_codes |-> clothing_codes, price |-> price]]
    /\ res' = [status |-> "None"]
    /\ UNCHANGED <<product_codes, price, schema, fill_vars, handle_vars>>

NextRefresh == UpdateSupplierClothing

\* one clothing refresh on every store of InitRefresh
SpecRefresh == InitRefresh /\ [][NextRefresh]_vars

(***************************************************************************)
(* Properties of the clothing refresh                                       *)
(***************************************************************************)
RefreshCalled == req.op = "update_supplier_clothing"

\* the clothing codes held the key before the refresh
KeyPresent(key) == \E r \in Rows(req.before.clothing_codes) : Key(r) = key

OptionalFields ==
    {"category", "subcategory", "size", "color", "supplier_code", "description"}

\* float('nan') and the text 'nan' in three spellings
Sentinels == {NaN, <<"n", "a", "n">>, <<"N", "a", "N">>, <<"N", "A", "N">>}

IsSentinel(v) == v = NaN \/ (IsStr(v) /\ Lower(v) = <<"n", "a", "n">>)

\* a record that is valid but for the value of one optional field
SentinelItem(code, field, value) ==
    [Item(code, <<"a">>, <<"A">>, DEFAULT_SUPPLIER_ID) EXCEPT ![field] = value]

SentinelItems ==
    {SentinelItem(code, field, value) :
        code \in 1..2, field \in OptionalFields, value \in Sentinels}

SentinelFiles == UNION {[1..n -> SentinelItems] : n \in 0..MaxBatch}

\* POST /import of such a file, without a supplier filter
ImportSentinels == ImportOf(SentinelFiles, {<<>>})

NextSentinel == ImportSentinels

\* one import of records with NaN-like values into the empty store
SpecSentinel == InitImport /\ [][NextSentinel]_vars

(***************************************************************************)
(* Properties of the sentinel normalization                                 *)
(***************************************************************************)
\* the record with every NaN-like optional value absent
Absent(item) ==
    [k \in DOMAIN item |->
        IF k \in OptionalFields /\ IsSentinel(item[k]) THEN None ELSE item[k]]

\* the entries of validation_errors (lines 131-144), which the answer carries
\* when the strategy is validate_only or when the import is refused for them
ValidationErrors ==
    IF req.strategy = "validate_only" \/ res.status = "HTTPException"
    THEN res.errors ELSE <<>>

\* C17: a float NaN or a text 'nan' (in any letter case) in an optional
\* string field of an import record is turned into None before validation:
\* the record is not refused for it, and the row stored for it has the field
\* absent.
SentinelNormalization ==
    ImportCalled =>
        /\ \A k \in 1..Len(ValidationErrors) :
               ~ClothingCodeCreateValid(Absent(ValidationErrors[k].data))
        /\ \A r \in Rows(clothing_codes) :
               \A f \in OptionalFields : ~IsSentinel(r[f])

\* an import stored the record of a file whose supplier_code was the text
\* 'NaN', with the field absent
SentinelNormalizationWitness ==
    /\ ImportCalled
    /\ res.status = "ImportResult"
    /\ \E i \in 1..Len(req.file) :
           /\ req.file[i].supplier_code = <<"N", "a", "N">>
           /\ \E r \in Rows(clothing_codes) :
                  Key(r) = Key(req.file[i]) /\ r.supplier_code = None
(***************************************************************************)
(* Properties of replace_supplier and its supplier filter                   *)
(***************************************************************************)
\* C18: a replace_supplier import without a supplier filter (absent or 0)
\* is rejected and leaves every table as it was; with a filter S every
\* clothing row of S that the import leaves behind was inserted by this
\* import, the rows S had before being deleted ahead of the first insert.
ReplaceSupplierNeedsFilter ==
    (ImportCalled /\ req.strategy = "replace_supplier") =>
        /\ ~Truthy(req.supplier_id_filter) =>
               /\ res.status = "HTTPException"
               /\ StoreNow = req.before
        /\ (Truthy(req.supplier_id_filter) /\ ImportReturned) =>
               \A r \in Rows(clothing_codes) :
                   r.supplier_id = req.supplier_id_filter[1] =>
                       /\ CopiesIn(r, clothing_codes) = 1
                       /\ \E i \in 1..Len(RequestData) :
                              r = ClothingCodeCreate(RequestData[i])

\* a replace_supplier import of a file with records came without a filter
ReplaceSupplierNeedsFilterWitness ==
    /\ ImportCalled
    /\ req.strategy = "replace_supplier"
    /\ ~Truthy(req.supplier_id_filter)
    /\ req.file # <<>>
    /\ AllValid(req.file)
(***************************************************************************)
(* The gap-fill pipeline invoked twice on one sheet                         *)
(***************************************************************************)
\* categorized rows of two categories, a gap, a gap whose name matches a
\* rule, and a categorized row whose name matches a rule
RefillRows ==
    {Row(Tovar, <<"X">>, <<"Y">>), Row(Tovar, <<"Z">>, <<"W">>),
     Row(Tovar, NaN, NaN), Row(VINTAG, NaN, NaN),
     Row(Licenziya, <<"X">>, <<"Y">>)}

InitRefill ==
    /\ InitStore
    /\ \E n \in 0..MaxRefillRows : df \in [1..n -> RefillRows]
    /\ neighbors_df = <<>>
    /\ filled_df = <<>>
    /\ uploads = {}
    /\ InitNoTasks

NextRefill == FillMissingData \/ FillMissingDataAgain

\* two invocations of the pipeline on every sheet of the bound
SpecRefill == InitRefill /\ [][NextRefill]_vars

(***************************************************************************)
(* Properties of repeated gap filling                                       *)
(***************************************************************************)
\* the sheet without the two provenance columns
Columns3(sheet) ==
    [i \in 1..Len(sheet) |->
        Row(sheet[i].name, sheet[i].category, sheet[i].subcategory)]

OtherHeaderRow == SheetRow(Float(1), <<"Q">>, <<"S">>, <<"M">>, Float(5))

OverlapRows == {HeaderRow, OtherHeaderRow, SubRow}

\* the stores the two runs start from: no clothing code, or the code of
\* one of the products
OverlapStores == {st \in SyncStores : st.product = NoProducts /\ st.prices = EmptyBag}

InitOverlap ==
    /\ \E st \in OverlapStores :
           /\ clothing_codes = st.clothing
           /\ price = st.prices
           /\ product_codes = st.product.table
           /\ schema = [sql_script_create_table EXCEPT
                           !.product_codes = st.product.tschema]
    /\ req = NoRequest
    /\ res = NoResult
    /\ InitNoSheet
    /\ InitHandles
    /\ tasks = <<>>

RunAt(t, pc) == t \in 1..Len(tasks) /\ tasks[t].pc = pc

InProgress(t) == tasks[t].pc # "done"

RunRefs ==
    [clothing |-> clothing_codes, product |-> product_codes,
     supplier_id |-> DEFAULT_SUPPLIER_ID, price_schema |-> schema.price,
     fails |-> {}]

\* POST /load-price-nulan: a task for process_price; alone tells whether no
\* other run was in progress at any moment of this run
StartRun ==
    /\ Len(tasks) < 2
    /\ \E n \in 0..MaxOverlapRows :
           \E first \in [1..n -> OverlapRows] :
               tasks' =
                   Append([u \in 1..Len(tasks) |->
                              IF InProgress(u) THEN [tasks[u] EXCEPT !.alone = FALSE]
                              ELSE tasks[u]],
                          [pc |-> "seed", sheets |-> <<first, <<>>>>, n |-> 1,
                           alone |-> \A u \in 1..Len(tasks) : ~InProgress(u),
                           run |-> [table |-> <<>>, code_max |-> 0, current_code |-> 0,
                                    emitted |-> <<>>, stats |-> <<>>, raised |-> FALSE,
                                    called |-> {}],
                           snapshot |-> EmptyBag])
    /\ UNCHANGED <<store_vars, req, res, fill_vars, _instances, _lock, managers,
                   _db_manager, _db_manager_lock>>

\* lines 212-215: code_max = await get_max_code_async(supplier_id)
SeedCounter(t) ==
    /\ RunAt(t, "seed")
    /\ LET code_max == max_code_or_zero(RunRefs)
       IN  tasks' = [tasks EXCEPT ![t].pc = "clear",
                                  ![t].run.code_max = code_max,
                                  ![t].run.current_code = code_max + 1]
    /\ UNCHANGED <<store_vars, req, res, fill_vars, _instances, _lock, managers,
                   _db_manager, _db_manager_lock>>

\* line 216: await clear_supplier_price(supplier_id)
ClearPrice(t) ==
    /\ RunAt(t, "clear")
    /\ price' = cleared_or_kept(price, RunRefs)
    /\ tasks' = [tasks EXCEPT ![t].pc = "file"]
    /\ UNCHANGED <<product_codes, clothing_codes, schema, req, res, fill_vars,
                   _instances, _lock, managers, _db_manager, _db_manager_lock>>

\* lines 217-218: current_code = await _parse_file(file, current_code)
ParseFile(t) ==
    /\ RunAt(t, "file")
    /\ LET n == tasks[t].n
           out == _parse_file([tasks[t].run EXCEPT !.table = price],
                              tasks[t].sheets[n], FILENAME_MAPPING[n], RunRefs)
       IN  /\ price' = out.table
           /\ tasks' = [tasks EXCEPT
                           ![t].run = [out EXCEPT !.table = <<>>],
                           ![t].n = n + 1,
                           ![t].pc = IF out.raised \/ n = Len(FILENAME_MAPPING)
                                     THEN "read" ELSE "file"]
    /\ UNCHANGED <<product_codes, clothing_codes, schema, req, res, fill_vars,
                   _instances, _lock, managers, _db_manager, _db_manager_lock>>

\* line 101: df = save_price_as_is(), the snapshot the run returns
ReadSnapshot(t) ==
    /\ RunAt(t, "read")
    /\ tasks' = [tasks EXCEPT ![t].pc = "done", ![t].snapshot = price]
    /\ UNCHANGED <<store_vars, req, res, fill_vars, _instances, _lock, managers,
                   _db_manager, _db_manager_lock>>

NextOverlap ==
    \/ StartRun
    \/ \E t \in 1..Len(tasks) :
           SeedCounter(t) \/ ClearPrice(t) \/ ParseFile(t) \/ ReadSnapshot(t)

\* two runs of process_price for the nulan supplier, in every order of
\* their steps
SpecOverlap == InitOverlap /\ [][NextOverlap]_vars

(***************************************************************************)
(* Properties of the synthetic codes of concurrent runs                     *)
(***************************************************************************)
RunDone(t) == RunAt(t, "done") /\ ~tasks[t].run.raised

\* the emitted records of run t that got a synthetic code
Synthetic(t) ==
    {i \in 1..Len(tasks[t].run.emitted) :
        tasks[t].run.emitted[i].code > tasks[t].run.code_max}

\* C19: a price-sync run that no other run of the supplier overlaps gives
\* no code to two different products, and no row of its price snapshot
\* carries the code of another product of the run; two runs that overlap can
\* seed their counters from one maximum and give one synthetic code to two
\* different products, the row of one replacing the row of the other.
SyntheticCodesWithoutOverlap ==
    \A t \in 1..Len(tasks) :
        (RunDone(t) /\ tasks[t].alone) =>
            LET emitted == tasks[t].run.emitted
            IN  /\ \A i, j \in 1..Len(emitted) :
                       emitted[i].code = emitted[j].code =>
                           emitted[i].name = emitted[j].name
                /\ \A i \in 1..Len(emitted) :
                       \A r \in Rows(tasks[t].snapshot) :
                           (r.supplier_id = emitted[i].supplier_id
                                /\ r.code = emitted[i].code) =>
                               r.name = Strip(emitted[i].name)

\* two overlapping runs seeded from one maximum gave one synthetic code to
\* two different products, both rows were written, and supplier_price holds
\* the row of one product only
SyntheticCodeCollision ==
    /\ Len(tasks) = 2
    /\ RunDone(1) /\ RunDone(2)
    /\ ~tasks[1].alone /\ ~tasks[2].alone
    /\ tasks[1].run.code_max = tasks[2].run.code_max
    /\ \E i \in Synthetic(1), j \in Synthetic(2) :
           LET a == tasks[1].run.emitted[i]
               b == tasks[2].run.emitted[j]
           IN  /\ a.code = b.code
               /\ a.name # b.name
               /\ \A k \in 1..Len(tasks[1].run.stats) : tasks[1].run.stats[k].errors = 0
               /\ \A k \in 1..Len(tasks[2].run.stats) : tasks[2].run.stats[k].errors = 0
               /\ Cardinality({r \in Rows(price) :
                                  r.code = a.code /\ r.supplier_id = a.supplier_id}) = 1
(***************************************************************************)
(* The walk of one file, row by row (nulan/price_loader.py, _parse_file)    *)
(***************************************************************************)
\* a product row without a list price and a sub-row with a colour whose only
\* remainder stands in the first size column
UnpricedRow == SheetRow(Float(1), <<"P">>, <<"S">>, <<"M">>, Float(0))

FirstOnlyRow == SheetRow(NaN, <<"e">>, <<"+">>, NaN, NaN)

WalkerRows == WalkRows \cup {UnpricedRow, FirstOnlyRow}

InitWalk == InitSync

WalkRefs ==
    [clothing |-> req.before.clothing_codes, product |-> req.before.product_codes,
     supplier_id |-> DEFAULT_SUPPLIER_ID, price_schema |-> schema.price,
     fails |-> {}]

\* lines 211-216 and 225-229: the counter is seeded, the supplier's prices
\* are cleared and the file is read; the walker starts without a product
StartWalk ==
    /\ req = NoRequest
    /\ \E n \in 1..MaxWalkRows :
           \E inf \in [1..n -> WalkerRows] :
               \E f \in 1..Len(FILENAME_MAPPING) :
                   LET refs == [clothing |-> clothing_codes, product |-> product_codes,
                                supplier_id |-> DEFAULT_SUPPLIER_ID,
                                price_schema |-> schema.price, fails |-> {}]
                   IN  /\ req' = [op |-> "walk", inf |-> inf,
                                  file |-> FILENAME_MAPPING[f], k |-> 0,
                                  supplier_id |-> DEFAULT_SUPPLIER_ID,
                                  before |-> [product_codes |-> product_codes,
                                              clothing_codes |-> clothing_codes,
                                              price |-> price, schema |-> schema]]
                       /\ res' = [w |-> [sizes |-> <<>>, product_name |-> <<>>,
                                         product_price |-> 0,
                                         current_code |-> max_code_or_zero(refs) + 1,
                                         price_supplier |-> <<>>, emitted |-> <<>>,
                                         raised |-> FALSE, called |-> {}],
                                  emitted_before |-> 0]
                       /\ price' = cleared_or_kept(price, refs)
    /\ UNCHANGED <<product_codes, clothing_codes, schema, fill_vars, handle_vars>>

\* lines 230-276: the next row of the sheet
WalkRow ==
    /\ req # NoRequest
    /\ req.op = "walk"
    /\ req.k < Len(req.inf)
    /\ ~res.w.raised
    /\ req' = [req EXCEPT !.k = @ + 1]
    /\ res' = [w |-> walk_row(res.w, req.inf[req.k + 1], req.file, WalkRefs),
               emitted_before |-> Len(res.w.price_supplier)]
    /\ UNCHANGED <<store_vars, fill_vars, handle_vars>>

\* line 278: the records of the file go to supplier_price; a walk that has
\* raised writes nothing
FinishWalk ==
    /\ req # NoRequest
    /\ req.op = "walk"
    /\ req.k = Len(req.inf) \/ res.w.raised
    /\ req' = [req EXCEPT !.op = "walked"]
    /\ res' = res
    /\ price' = IF res.w.raised THEN price
                ELSE price_written_or_counted(price, WalkRefs,
                                              res.w.price_supplier).table
    /\ UNCHANGED <<product_codes, clothing_codes, schema, fill_vars, handle_vars>>

NextWalk ==
    \/ StartWalk
    \/ WalkRow
    \/ FinishWalk

\* the walk of one file of a price-sync run, one row per step
SpecWalk == InitWalk /\ [][NextWalk]_vars

(***************************************************************************)
(* Properties of the walk                                                   *)
(***************************************************************************)
\* the walker has just taken row req.k of the sheet
RowWalked == req # NoRequest /\ req.op = "walk" /\ req.k > 0

IsHeaderRow(s) == s[PRODUCT_SIGN_COLUMN] # NaN

\* the position of the last product row before row k, 0 without one
HeaderBefore(inf, k) ==
    LET headers == {j \in 1..(k - 1) : IsHeaderRow(inf[j])}
    IN  IF headers = {} THEN 0 ELSE CHOOSE j \in headers : \A h \in headers : h <= j

\* the product name of a product row of the file
HeaderName(s, file) ==
    IF file = FILE_CHANGE THEN Replace(s[PRODUCT_NAME_COLUMN], cont, Conte)
    ELSE s[PRODUCT_NAME_COLUMN]

\* the list price of a product row, 0 for an empty cell
HeaderPrice(s) ==
    IF s[PRODUCT_PRICE_COLUMN] = NaN THEN 0 ELSE s[PRODUCT_PRICE_COLUMN][2]

\* the records the last row has added
NewRecords ==
    {res.w.price_supplier[n] : n \in (res.emitted_before + 1)..Len(res.w.price_supplier)}

\* the size columns of the product row h whose label is a string
LabelColumns(h) == {c \in PRODUCT_SIZE_RANGE : IsStrCell(h[c])}

\* C21: every record the walker emits for a sub-row carries the product name
\* and the price of the last product row before it and a size of that row's
\* size list; no record is emitted while the active price is 0 (price cell
\* empty or 0, or no product row yet in the file) and none for a size whose
\* remainder cell in the sub-row is not a string.
WalkerStateMachine ==
    RowWalked =>
        LET s == req.inf[req.k]
            h == HeaderBefore(req.inf, req.k)
        IN  \A rec \in NewRecords :
                /\ ~IsHeaderRow(s)
                /\ h > 0
                /\ HeaderPrice(req.inf[h]) > 0
                /\ rec.product_summary = HeaderName(req.inf[h], req.file)
                /\ rec.price = HeaderPrice(req.inf[h])
                /\ \E c \in LabelColumns(req.inf[h]) :
                       /\ rec.size = req.inf[h][c]
                       /\ IsStrCell(s[c])

\* a sub-row after a priced product row has added a record
WalkerWitness ==
    /\ RowWalked
    /\ NewRecords # {}

\* C22: the remainder of the size label in column c of a product row is read
\* from column c of the sub-rows that follow it, whatever the pattern of
\* string and other cells in the size range: a sub-row of a priced product
\* adds a record for the label of column c exactly when its own cell in
\* column c is a string.
SizeColumnCorrespondence ==
    (RowWalked /\ ~res.w.raised) =>
        LET s == req.inf[req.k]
            h == HeaderBefore(req.inf, req.k)
        IN  (~IsHeaderRow(s) /\ h > 0 /\ HeaderPrice(req.inf[h]) > 0) =>
                \A c \in LabelColumns(req.inf[h]) :
                    (\E rec \in NewRecords : rec.size = req.inf[h][c])
                        <=> IsStrCell(s[c])

\* a sub-row has been walked after a priced product row whose only label
\* stands in the second size column
SizeColumnWitness ==
    /\ RowWalked
    /\ ~res.w.raised
    /\ ~IsHeaderRow(req.inf[req.k])
    /\ HeaderBefore(req.inf, req.k) > 0
    /\ HeaderPrice(req.inf[HeaderBefore(req.inf, req.k)]) > 0
    /\ LabelColumns(req.inf[HeaderBefore(req.inf, req.k)])
           = {PRODUCT_START_REMAINS_COLUMN + 1}

(***************************************************************************)
(* The enriched sheet of the lanseti price (lanseti/price_loader.py,        *)
(* repositories/supplier_codes_repo.py)                                     *)
(***************************************************************************)
\* str(n) of a code read from an INTEGER column
RECURSIVE Text(_)
Text(n) == IF n < 10 THEN <<Digits[n + 1]>>
           ELSE Text(n \div 10) \o <<Digits[(n % 10) + 1]>>

\* supplier_codes_repo.py lines 467-488 and price_loader.py lines 641-666:
\* code, category and subcategory of the supplier's reference rows, in the
\* order the SELECT returns them, with code as stripped text
get_supplier_data(rows, supplier_id) ==
    LET mine == SelectSeq(rows, LAMBDA r : r.supplier_id = supplier_id)
    IN  [j \in 1..Len(mine) |->
            [code |-> Strip(Text(mine[j].code)), category |-> mine[j].category,
             subcategory |-> mine[j].subcategory]]

\* lines 844-853: pd.merge(how="left") of one sheet row: a row per reference
\* row with its code, in reference order, and one row with empty values
\* when there is none
merge_row(row, supplier_data) ==
    LET hits == SelectSeq(supplier_data, LAMBDA d : d.code = row.Kod)
    IN  IF hits = <<>>
        THEN <<[Kod |-> row.Kod, name |-> row.name, category |-> NaN,
                subcategory |-> NaN]>>
        ELSE [j \in 1..Len(hits) |->
                 [Kod |-> row.Kod, name |-> row.name,
                  category |-> hits[j].category,
                  subcategory |-> hits[j].subcategory]]

\* lines 835-872: the rows of the sheet in sheet order; the result carries a
\* fresh index 0, 1, 2, ...
RECURSIVE _merge_with_supplier_data(_, _, _)
_merge_with_supplier_data(excel_df, supplier_data, i) ==
    IF i > Len(excel_df) THEN <<>>
    ELSE merge_row(excel_df[i], supplier_data)
             \o _merge_with_supplier_data(excel_df, supplier_data, i + 1)

\* lines 1043-1065: the two provenance columns are dropped; every pass
\* keeps the other columns of a row
_apply_processing_rules(merged_df, passed_df) ==
    [i \in 1..Len(merged_df) |->
        [Kod |-> merged_df[i].Kod, name |-> merged_df[i].name,
         category |-> passed_df[i].category,
         subcategory |-> passed_df[i].subcategory]]

\* lines 1085-1130: the cells written for the frame row with index idx; the
\* worksheet row is header_row + 2 + idx, a missing value leaves the cell
\* empty; Kod is the code cell of the frame row the values belong to
_save_to_excel_with_formatting(processed_df, header_row) ==
    [excel_row \in {header_row + 2 + idx : idx \in 0..(Len(processed_df) - 1)} |->
        LET row == processed_df[excel_row - header_row - 2 + 1]
        IN  [category |-> IF notna(row.category) THEN row.category ELSE None,
             subcategory |-> IF notna(row.subcategory) THEN row.subcategory ELSE None,
             Kod |-> row.Kod]]

\* lines 676-737
_process_excel_file(excel_df, header_row, supplier_data) ==
    LET merged_df == _merge_with_supplier_data(excel_df, supplier_data, 1)
        passed_df == _fill_missing_data(merged_df)
        processed_df == _apply_processing_rules(merged_df, passed_df)
    IN  [merged_df |-> merged_df, passed_df |-> passed_df,
         processed_df |-> processed_df,
         ws |-> _save_to_excel_with_formatting(processed_df, header_row)]

\* reference rows of the two suppliers: one code in two rows, as a CSV load
\* leaves them, and single ones
CatalogRows ==
    {Product(1, <<"a">>, <<"X">>, LANSETI_DEFAULT_SUPPLIER_ID),
     Product(1, <<"b">>, <<"Y">>, LANSETI_DEFAULT_SUPPLIER_ID),
     Product(2, <<"c">>, <<"Z">>, LANSETI_DEFAULT_SUPPLIER_ID),
     Product(1, <<"d">>, <<"W">>, DEFAULT_SUPPLIER_ID)}

\* the data rows of the downloaded sheet: code cell as text, product name
ExcelRow(code) == [Kod |-> Text(code), name |-> <<"P">>]

ExcelRows == {ExcelRow(1), ExcelRow(2), ExcelRow(3)}

HeaderRows == {0, 1}

\* the rows of a table in an order the SELECT can return them
Orders(table) ==
    {o \in [1..Cardinality(Rows(table)) -> Rows(table)] :
        \A j, k \in 1..Cardinality(Rows(table)) : o[j] = o[k] => j = k}

InitMerge ==
    /\ \E catalog \in SUBSET CatalogRows : product_codes = SetToBag(catalog)
    /\ clothing_codes = EmptyBag
    /\ price = EmptyBag
    /\ schema = [sql_script_create_table EXCEPT
                    !.product_codes = PandasTable(ProductColumns)]
    /\ req = NoRequest
    /\ res = NoResult
    /\ InitNoSheet
    /\ InitNoTasks

\* steps 4 and 5 of process_price (lines 150-158) for a downloaded sheet
ProcessExcelFile ==
    /\ req = NoRequest
    /\ \E n \in 1..MaxMergeRows :
           \E excel_df \in [1..n -> ExcelRows], header_row \in HeaderRows,
              rows \in Orders(product_codes) :
               LET supplier_data ==
                       get_supplier_data(rows, LANSETI_DEFAULT_SUPPLIER_ID)
                   out == _process_excel_file(excel_df, header_row, supplier_data)
               IN  /\ req' = [op |-> "excel", excel_df |-> excel_df,
                              header_row |-> header_row,
                              supplier_data |-> supplier_data]
                   /\ IF supplier_data = <<>>
                      THEN /\ res' = [status |-> "SupplierDataError"]
                           /\ UNCHANGED fill_vars
                      ELSE /\ res' = [status |-> "Path",
                                      processed_df |-> out.processed_df,
                                      ws |-> out.ws]
                           /\ df' = out.merged_df
                           /\ filled_df' = out.passed_df
                           /\ UNCHANGED <<neighbors_df, uploads>>
    /\ UNCHANGED <<store_vars, handle_vars>>

NextMerge == ProcessExcelFile

\* the enrichment of one downloaded sheet against every reference catalog
SpecMerge == InitMerge /\ [][NextMerge]_vars

(***************************************************************************)
(* Properties of the enriched sheet                                         *)
(***************************************************************************)
ExcelProcessed == req # NoRequest /\ req.op = "excel" /\ res.status = "Path"

\* C23: whatever the reference catalog holds, also one code in several rows,
\* the merged sheet has the rows of the sheet in number and order, so the
\* values written to worksheet row header_row + 2 + i are those of the i-th
\* data row of the sheet.
EnrichedRowAlignment ==
    ExcelProcessed =>
        /\ Len(res.processed_df) = Len(req.excel_df)
        /\ \A i \in 0..(Len(req.excel_df) - 1) :
               /\ req.header_row + 2 + i \in DOMAIN res.ws
               /\ res.ws[req.header_row + 2 + i].Kod = req.excel_df[i + 1].Kod

\* a sheet of two rows has been enriched against a catalog that holds the
\* code of its first row twice
EnrichedRowAlignmentWitness ==
    /\ ExcelProcessed
    /\ Len(req.excel_df) = 2
    /\ Cardinality({j \in 1..Len(req.supplier_data) :
                       req.supplier_data[j].code = req.excel_df[1].Kod}) = 2
    /\ req.excel_df[2].Kod # req.excel_df[1].Kod

(***************************************************************************)
(* The Lanseti price run, one statement group at a time                     *)
(* (services/prices/lanseti/price_loader.py, process_price)                 *)
(***************************************************************************)
\* the local names of a call that are bound so far, with their values
NoLocals == [name \in {} |-> None]

Bind(locals, name, value) ==
    [n \in DOMAIN locals \cup {name} |-> IF n = name THEN value ELSE locals[n]]

IsBound(locals, name) == name \in DOMAIN locals

\* core/exceptions.py: the classes below BaseAppException that the steps of
\* process_price raise
BaseAppExceptions ==
    {"EmailFetchError", "DriveApiError", "FileAppNotFoundError",
     "SupplierDataError", "ExcelProcessingError", "PriceProcessingError"}

\* the stamps datetime.now(UTC).strftime(...) yields during a price run
Timestamps == {<<"1">>}

\* the values of the output_filename argument
OutputFilenames == {None, <<>>, <<"a">>}

\* line 141: settings.BASE_DIR / Path(f"uploads/{output_filename}")
UploadsPath(output_filename) == [stem |-> output_filename, enriched |-> FALSE]

\* lines 1067-1083: the sibling "<stem>_enriched_<timestamp>.xlsx"
_generate_output_filename(input_path) ==
    [stem |-> input_path.stem, enriched |-> TRUE]

\* lines 137-139: a missing or empty name becomes price_<supplier>_<timestamp>
default_output_filename(output_filename, supplier_id, timestamp) ==
    IF output_filename = None \/ output_filename = <<>>
    THEN <<"p", "r", "i", "c", "e", "_">> \o Text(supplier_id) \o <<"_">>
             \o timestamp
    ELSE output_filename

\* lines 1204-1246: each path that is set and exists is removed; removed tells
\* whether os.remove succeeded, its errors are logged and swallowed
_cleanup_temp_files(disk, file_paths, removed) ==
    IF removed THEN disk \ file_paths ELSE disk

\* lines 174-182: the except clauses of process_price
raised_by_handlers(raised) ==
    IF raised \in BaseAppExceptions THEN raised ELSE "PriceProcessingError"

InitLanseti ==
    /\ InitStore
    /\ req = NoRequest
    /\ res = NoResult
    /\ InitNoSheet
    /\ InitNoTasks

Running(pc) == req # NoRequest /\ req.op = "process_price" /\ req.pc = pc

\* a step raises: control passes to the except clauses
Raise(step, exception) ==
    req' = [req EXCEPT !.pc = "except", !.raised = exception, !.step = step]

\* lines 106-120: the call is made and the try block entered
StartProcessPrice ==
    /\ req = NoRequest
    /\ \E output_filename \in OutputFilenames :
           req' = [op |-> "process_price", pc |-> "link", step |-> "none",
                   output_filename |-> output_filename, raised |-> "none",
                   locals |-> NoLocals]
    /\ UNCHANGED <<store_vars, res, fill_vars, handle_vars>>

\* lines 121-125: the link is read from the mail box and validated
GetDriveLink ==
    /\ Running("link")
    /\ \/ req' = [req EXCEPT !.pc = "find"]
       \/ Raise("link", "EmailFetchError")
    /\ UNCHANGED <<store_vars, res, fill_vars, handle_vars>>

\* lines 127-131: the file is looked up in the drive folder
FindFileInDrive ==
    /\ Running("find")
    /\ \/ req' = [req EXCEPT !.pc = "download"]
       \/ Raise("find", "DriveApiError")
       \/ Raise("find", "FileAppNotFoundError")
    /\ UNCHANGED <<store_vars, res, fill_vars, handle_vars>>

\* lines 133-145: the output path is built, its folder made and the file
\* downloaded; a failed download may leave what it had written
DownloadFile ==
    /\ Running("download")
    /\ \E timestamp \in Timestamps :
           LET output_filename ==
                   default_output_filename(req.output_filename,
                                           LANSETI_DEFAULT_SUPPLIER_ID, timestamp)
               output_path == UploadsPath(output_filename)
               bound == [req EXCEPT !.output_filename = output_filename,
                                    !.locals = Bind(@, "output_path",
                                                    output_path)]
           IN  \/ /\ req' = [bound EXCEPT !.pc = "except", !.raised = "OSError",
                                          !.step = "mkdir"]
                  /\ UNCHANGED uploads
               \/ /\ req' = [bound EXCEPT !.pc = "supplier"]
                  /\ uploads' = uploads \cup {output_path}
               \/ /\ req' = [bound EXCEPT !.pc = "except",
                                          !.raised = "DriveApiError",
                                          !.step = "download"]
                  /\ uploads' \in {uploads, uploads \cup {output_path}}
    /\ UNCHANGED <<store_vars, res, df, neighbors_df, filled_df, handle_vars>>

\* lines 151-153: the reference rows of the supplier are read
GetSupplierData ==
    /\ Running("supplier")
    /\ \/ req' = [req EXCEPT !.pc = "excel"]
       \/ Raise("supplier", "SupplierDataError")
    /\ UNCHANGED <<store_vars, res, fill_vars, handle_vars>>

\* lines 155-158: the sheet is enriched and written beside the download; the
\* name is bound only when _process_excel_file returns
ProcessExcel ==
    /\ Running("excel")
    /\ LET output_file == _generate_output_filename(req.locals.output_path)
       IN  \/ /\ req' = [req EXCEPT !.pc = "upload",
                                    !.locals = Bind(@, "enriched_file_path",
                                                    output_file)]
              /\ uploads' = uploads \cup {output_file}
           \/ /\ Raise("excel", "ExcelProcessingError")
              /\ uploads' \in {uploads, uploads \cup {output_file}}
    /\ UNCHANGED <<store_vars, res, df, neighbors_df, filled_df, handle_vars>>

\* lines 160-162 and converter.py lines 16-86: the converter answers with a
\* result, also for the failures it catches, or raises what it does not catch
UploadEnriched ==
    /\ Running("upload")
    /\ \/ \E success \in BOOLEAN :
              req' = [req EXCEPT !.pc = "finally",
                                 !.locals = Bind(@, "upload_result",
                                                 [success |-> success])]
       \/ Raise("upload", "AttributeError")
    /\ UNCHANGED <<store_vars, res, fill_vars, handle_vars>>

\* lines 170-179: application exceptions are raised again, any other one is
\* wrapped
ExceptClauses ==
    /\ Running("except")
    /\ req' = [req EXCEPT !.pc = "finally"]
    /\ res' = [status |-> raised_by_handlers(req.raised)]
    /\ UNCHANGED <<store_vars, fill_vars, handle_vars>>

\* lines 180-184: the finally block reads enriched_file_path; a name that was
\* never bound raises UnboundLocalError in place of the exception in flight
FinallyClause ==
    /\ Running("finally")
    /\ req' = [req EXCEPT !.pc = "done"]
    /\ IF ~IsBound(req.locals, "enriched_file_path")
       THEN /\ res' = [status |-> "UnboundLocalError"]
            /\ UNCHANGED uploads
       ELSE /\ res' = IF req.raised = "none"
                      THEN [status |-> "UploadResult",
                            success |-> req.locals.upload_result.success]
                      ELSE res
            /\ \E removed \in BOOLEAN :
                   uploads' = _cleanup_temp_files(
                                  uploads, {req.locals.enriched_file_path}, removed)
    /\ UNCHANGED <<store_vars, df, neighbors_df, filled_df, handle_vars>>

\* the caller has its answer and may call again
ReturnProcessPrice ==
    /\ Running("done")
    /\ Return

NextLanseti ==
    \/ StartProcessPrice
    \/ GetDriveLink
    \/ FindFileInDrive
    \/ DownloadFile
    \/ GetSupplierData
    \/ ProcessExcel
    \/ UploadEnriched
    \/ ExceptClauses
    \/ FinallyClause
    \/ ReturnProcessPrice

\* price runs one after the other, each failing at any step or at none
SpecLanseti == InitLanseti /\ [][NextLanseti]_vars

(***************************************************************************)
(* Properties of the price run                                              *)
(***************************************************************************)
PriceRunAnswered == Running("done")

\* C29: when a step of process_price raises an application exception the
\* caller receives that exception, and when it raises any other exception
\* the caller receives PriceProcessingError, at whichever step it happens.
ExceptionPropagation ==
    (PriceRunAnswered /\ req.raised # "none") =>
        res.status = raised_by_handlers(req.raised)

\* the mail held no link: the run failed at its first step and was answered
ExceptionPropagationWitness ==
    /\ PriceRunAnswered
    /\ req.step = "link"
    /\ req.raised = "EmailFetchError"
    /\ ~IsBound(req.locals, "enriched_file_path")

(***************************************************************************)
(* Upload artifacts of the two ZIP loaders                                  *)
(* (services/prices/load_codes.py, services/prices/nulan/price_loader.py)   *)
(***************************************************************************)
\* load_codes.py lines 325-326: the saved file gets a name of its own,
\* "<timestamp>_<uuid>_<name>"; call numbers the uploads
UniqueZipPath(call) == <<"zip", call>>

\* load_codes.py lines 147-150: "<stem>_extracted_<uuid>" beside the ZIP file
ExtractDirOf(zip_file_path) == <<"dir", zip_file_path[2]>>

\* nulan/price_loader.py line 317: temp_dir / "price.xlsx"
PriceFilename == <<"price", 0>>

ZipSuffix == <<".", "z", "i", "p">>

\* load_codes.py lines 287-295: a name is needed and must end in .zip,
\* whatever its case
IsZipName(filename) ==
    /\ filename # None
    /\ Len(filename) >= Len(ZipSuffix)
    /\ SubSeq(Lower(filename), Len(filename) - Len(ZipSuffix) + 1,
              Len(filename)) = ZipSuffix

\* load_codes.py lines 507-525: a missing path is skipped; ok tells whether
\* the removal succeeded, its OSError is logged and swallowed
remove_file_async(disk, file_path, ok) ==
    IF file_path \in disk /\ ok THEN disk \ {file_path} ELSE disk

\* load_codes.py lines 528-546: the same for shutil.rmtree of a directory
remove_directory_async(disk, dir_path, ok) ==
    IF dir_path \in disk /\ ok THEN disk \ {dir_path} ELSE disk

\* load_codes.py lines 459-473: unlink of an existing file, OSError swallowed
_safe_remove_file(disk, file_path, ok) ==
    IF file_path \in disk /\ ok THEN disk \ {file_path} ELSE disk

\* what happens to one call: the step that fails, whether the failed write
\* had created its file, and the paths whose removal fails
Faults ==
    {f \in [fail : {"none", "save_dir", "size", "write", "zip_check", "mkdir",
                    "unzip", "db", "price"},
            written : BOOLEAN,
            stuck : SUBSET {"zip", "dir"}] :
        f.written => f.fail \in {"write", "price"}}

\* the removals of path that were tried and failed
FailedRemoval(disk, path, kind, fault) ==
    IF path \in disk /\ kind \in fault.stuck THEN {path} ELSE {}

\* load_codes.py lines 207-276: the extension and the save directory are
\* checked before the try block; a failure while the file is written or
\* checked removes the file and raises
upload_file(disk, filename, file_path, fault) ==
    IF ~IsZipName(filename)
    THEN [disk |-> disk, raised |-> "FileNotZipError", details |-> None,
          created |-> {}, failed |-> {}]
    ELSE IF fault.fail = "save_dir"
    THEN [disk |-> disk, raised |-> "OSError", details |-> None,
          created |-> {}, failed |-> {}]
    ELSE IF fault.fail \in {"size", "write", "zip_check"}
    THEN LET exists == fault.fail # "write" \/ fault.written
             saved == IF exists THEN disk \cup {file_path} ELSE disk
         IN  [disk |-> _safe_remove_file(saved, file_path,
                                         "zip" \notin fault.stuck),
              raised |-> CASE fault.fail = "size" -> "FileSizeError"
                           [] fault.fail = "write" -> "RuntimeError"
                           [] OTHER -> "ZipExtractionError",
              details |-> None,
              created |-> saved \ disk,
              failed |-> FailedRemoval(saved, file_path, "zip", fault)]
    ELSE [disk |-> disk \cup {file_path}, raised |-> "none",
          details |-> <<file_path>>, created |-> {file_path}, failed |-> {}]

\* services/file_uploader.py, FileUploader.upload_file, as load_products
\* calls it at nulan/price_loader.py line 291: it saves the uploaded ZIP file
\* and answers with its path in details, or raises having removed what it
\* saved
file_uploader_upload_file(disk, filename, file_path, fault) ==
    upload_file(disk, filename, file_path, fault)

\* load_codes.py lines 143-161 and nulan/price_loader.py lines 291-309:
\* response check, ZIP path, extraction directory, extraction and search;
\* found tells whether the archive holds a file of the kind looked for
unpack(up, fault, found) ==
    LET start == [disk |-> up.disk, raised |-> up.raised,
                  zip_file_path |-> None, extract_dir |-> None,
                  created |-> up.created, failed |-> up.failed]
    IN  IF up.raised # "none" THEN start
        ELSE IF up.details = None
        THEN [start EXCEPT !.raised = "FileUploadError"]
        ELSE LET zip_file_path == up.details[1]
                 extract_dir == ExtractDirOf(zip_file_path)
                 named == [start EXCEPT !.zip_file_path = zip_file_path,
                                        !.extract_dir = extract_dir]
                 made == [named EXCEPT !.disk = @ \cup {extract_dir},
                                       !.created = @ \cup {extract_dir}]
             IN  IF fault.fail = "mkdir"
                 THEN [named EXCEPT !.raised = "OSError"]
                 ELSE IF fault.fail = "unzip"
                 THEN [made EXCEPT !.raised = "ZipExtractionError"]
                 ELSE IF ~found
                 THEN [made EXCEPT !.raised = "DataProcessingError"]
                 ELSE made

\* a variant of the finally block that removes the ZIP file only
cleanup_ZipOnly(st, fault) ==
    [st EXCEPT
        !.disk = IF st.zip_file_path # None
                 THEN remove_file_async(@, st.zip_file_path,
                                        "zip" \notin fault.stuck)
                 ELSE @,
        !.failed = @ \cup
                   (IF st.zip_file_path # None
                    THEN FailedRemoval(st.disk, st.zip_file_path, "zip", fault)
                    ELSE {})]

\* load_codes.py lines 189-195 and nulan/price_loader.py lines 343-349: the
\* finally block removes the ZIP file and the extraction directory when the
\* name is set and the path exists
cleanup(st, fault) ==
    LET zipped == IF st.zip_file_path # None /\ st.zip_file_path \in st.disk
                  THEN remove_file_async(st.disk, st.zip_file_path,
                                         "zip" \notin fault.stuck)
                  ELSE st.disk
        cleared == IF st.extract_dir # None /\ st.extract_dir \in zipped
                   THEN remove_directory_async(zipped, st.extract_dir,
                                               "dir" \notin fault.stuck)
                   ELSE zipped
    IN  [st EXCEPT
            !.disk = cleared,
            !.failed = @ \cup
                (IF st.zip_file_path # None
                 THEN FailedRemoval(st.disk, st.zip_file_path, "zip", fault)
                 ELSE {})
                \cup
                (IF st.extract_dir # None
                 THEN FailedRemoval(zipped, st.extract_dir, "dir", fault)
                 ELSE {})]

\* load_codes.py lines 171-186: the listed classes are raised again, any
\* other exception becomes RuntimeError
raised_by_load_file(raised) ==
    IF raised \in {"FileNotZipError", "FileSizeError", "ZipExtractionError",
                   "FileUploadError", "FileAppNotFoundError",
                   "DataProcessingError"}
    THEN raised ELSE "RuntimeError"

\* nulan/price_loader.py lines 325-340
raised_by_load_products(raised) ==
    IF raised \in {"ZipExtractionError", "FileUploadError",
                   "FileAppNotFoundError", "DataProcessingError"}
    THEN raised ELSE "RuntimeError"

\* load_codes.py lines 133-196: upload, unpacking, load of the first CSV file
\* into supplier_product_codes, and the cleanup whatever happened
load_file(disk, table, tschema, file, file_path, fault) ==
    LET st == unpack(upload_file(disk, file.filename, file_path, fault), fault,
                     file.member = "csv")
        out == codes_sync_load_operation(table, tschema, file.frame)
        failing == st.raised # "none" \/ fault.fail = "db"
                       \/ out.status # "success"
        raised == IF st.raised # "none" THEN st.raised
                  ELSE IF fault.fail = "db" THEN "DatabaseLoadError"
                  ELSE out.status
        done == cleanup(st, fault)
    IN  [disk |-> done.disk, created |-> done.created, failed |-> done.failed,
         zip_file_path |-> st.zip_file_path, extract_dir |-> st.extract_dir,
         table |-> IF failing THEN table ELSE out.table,
         tschema |-> IF failing THEN tschema ELSE out.tschema,
         raised |-> IF failing THEN raised ELSE "none",
         status |-> IF failing THEN raised_by_load_file(raised)
                    ELSE "SuccessResponse"]

\* nulan/price_loader.py lines 281-349: upload, unpacking, category update
\* from the first sheet, the price file for the converter, and the cleanup
load_products(disk, clothing, tschema, prices, file, file_path, fault) ==
    LET st == unpack(file_uploader_upload_file(disk, file.filename, file_path,
                                               fault),
                     fault, file.member = "xlsx")
        out == _update_categories(clothing, tschema, prices,
                                  _load_excel_data(file.sheet))
        loaded == st.raised = "none" /\ fault.fail # "db"
        priced == loaded /\ (fault.fail # "price" \/ fault.written)
        failing == ~loaded \/ fault.fail = "price"
        raised == IF st.raised # "none" THEN st.raised
                  ELSE IF fault.fail = "db" THEN "DatabaseLoadError"
                  ELSE "OSError"
        done == cleanup([st EXCEPT
                            !.disk = IF priced THEN @ \cup {PriceFilename}
                                     ELSE @],
                        fault)
    IN  [disk |-> done.disk, created |-> done.created, failed |-> done.failed,
         zip_file_path |-> st.zip_file_path, extract_dir |-> st.extract_dir,
         price |-> IF loaded THEN out.price ELSE prices,
         clothing |-> IF loaded THEN out.clothing ELSE clothing,
         raised |-> IF failing THEN raised ELSE "none",
         status |-> IF failing THEN raised_by_load_products(raised)
                    ELSE "UploadResult"]

\* the uploads: no name, a name that is not a ZIP name and a ZIP name in
\* capitals, with what the archive holds
UploadNames ==
    {None, <<"a", ".", "c", "s", "v">>, <<"A", ".", "Z", "I", "P">>}

CodeArchives ==
    [filename : UploadNames, member : {"xlsx", "csv"},
     frame : {<<>>, <<CsvRow(<<"7">>, <<"P">>, <<"K">>, <<"5", "6", "4">>)>>}]

PriceArchives ==
    [filename : UploadNames, member : {"xlsx", "csv"},
     sheet : {<<>>, <<XlsxRow(1, <<"K">>)>>}]

InitUpload ==
    /\ InitStore
    /\ req = NoRequest
    /\ res = NoResult
    /\ InitNoSheet
    /\ InitNoTasks

\* POST of a ZIP file with the reference catalog
LoadFile ==
    /\ req = NoRequest
    /\ Len(tasks) < MaxUploads
    /\ \E file \in CodeArchives, fault \in Faults :
           LET out == load_file(uploads, product_codes, schema.product_codes,
                                file, UniqueZipPath(Len(tasks) + 1), fault)
           IN  /\ req' = [op |-> "load_file", file |-> file, fault |-> fault,
                          raised |-> out.raised, created |-> out.created,
                          failed |-> out.failed,
                          zip_file_path |-> out.zip_file_path,
                          extract_dir |-> out.extract_dir]
               /\ res' = [status |-> out.status]
               /\ uploads' = out.disk
               /\ product_codes' = out.table
               /\ schema' = [schema EXCEPT !.product_codes = out.tschema]
    /\ tasks' = Append(tasks, "load_file")
    /\ UNCHANGED <<clothing_codes, price, df, neighbors_df, filled_df,
                   _instances, _lock, managers, _db_manager, _db_manager_lock>>

\* POST of a ZIP file with the Nulan category sheet
LoadProductsFile ==
    /\ req = NoRequest
    /\ Len(tasks) < MaxUploads
    /\ \E file \in PriceArchives, fault \in Faults :
           LET out == load_products(uploads, clothing_codes,
                                    schema.clothing_codes, price, file,
                                    UniqueZipPath(Len(tasks) + 1), fault)
           IN  /\ req' = [op |-> "load_products", file |-> file,
                          fault |-> fault, raised |-> out.raised,
                          created |-> out.created, failed |-> out.failed,
                          zip_file_path |-> out.zip_file_path,
                          extract_dir |-> out.extract_dir]
               /\ res' = [status |-> out.status]
               /\ uploads' = out.disk
               /\ price' = out.price
               /\ clothing_codes' = out.clothing
    /\ tasks' = Append(tasks, "load_products")
    /\ UNCHANGED <<product_codes, schema, df, neighbors_df, filled_df,
                   _instances, _lock, managers, _db_manager, _db_manager_lock>>

NextUpload == LoadFile \/ LoadProductsFile \/ Return

\* uploads to the two loaders, one after the other, each failing at any step
\* or at none
SpecUpload == InitUpload /\ [][NextUpload]_vars

(***************************************************************************)
(* Properties of the upload artifacts                                       *)
(***************************************************************************)
LoadAnswered == req # NoRequest /\ req.op \in {"load_file", "load_products"}

\* the ZIP file and the extraction directory the answered call created
ArtifactsOfCall ==
    {p \in req.created : p[1] \in {"zip", "dir"}}

====
